---- MODULE Spec2Model ----
(***************************************************************************)
(* Model of the boiling-simulation visualization scripts                   *)
(* (src/visualization_scripts): the OpenFOAM field-file parsers, the       *)
(* timestep-directory scanners, the GIF animation assemblers, the frame    *)
(* renderers and the external-tool driver.                                 *)
(*                                                                         *)
(* Floating-point values are represented by integers in thousandths        *)
(* (0.5 is 500, 1e-3 is 1, 1 is 1000); the fill value 0.0 is 0.            *)
(***************************************************************************)
EXTENDS Integers, Sequences, FiniteSets, TLC

VARIABLES
    \* ---- field-file parser ----
    grid,        \* <<nx, ny, nz>> of the visualizer / expected_cells of the call
    file,        \* the field file: [path, status, lines]
    variant,     \* the parser copy that ran ("none" before any call)
    result,      \* the flat sequence returned by the parser
    printed,     \* console messages of the parser call
    raised,      \* TRUE iff an exception left the parser call
    \* ---- timestep scanner ----
    listing,     \* what os.listdir(case_dir) yields, in the order it yields it
    scanner,     \* the scanner copy that ran ("none" before any scan)
    time_dirs,   \* the timesteps the scanner returned
    scan_raised, \* TRUE iff an exception left the scan
    \* ---- animation assembler ----
    asm,         \* the assembler that runs ("none" before any run)
    apc,         \* "idle", "loop" (rendering frames), "done" (returned) or
                 \* "aborted" (left by an uncaught exception)
    selected,    \* the selected sequence: timesteps, or viewing angles
    idx,         \* Python index i of the next element of `selected`
    frame_files, \* the list of temporary frame files of the run
    tmp_files,   \* the temporary frame files that exist in the working directory
    written,     \* every temporary frame file written during the run
    attempted,   \* the indices whose frame the run started to render
    logged,      \* indices of the frames whose error was caught and printed
    gif,         \* the frames of the output GIF, <<>> while none is written
    uncaught,    \* "none", or what raised the exception that ended the run
    caller,      \* "direct" (the function was called), "main" (the script's
                 \* main() called it), "none" before any run
    console,     \* the result messages the run printed, in order
    returned,    \* what the call returned: "None", an output file name, or
                 \* "unset" while it has not returned
    outputs,     \* the output files (not the temporary frames) written
    \* ---- frame renderer ----
    shape,       \* <<nz, ny, nx>> of the grid the field is reshaped to
    alpha_3d,    \* the volume fraction of each cell <<k, j, i>>
    renderer,    \* the renderer that ran ("none" before any call)
    z_slice_idx, \* the layer a 2D renderer selected, -1 while none has
    buckets,     \* the points a 3D renderer hands to scatter, by phase
    \* ---- external-tool driver ----
    tpc,             \* "idle", "returned" (the use of the file returned)
                     \* or "SyntaxError" (the file did not compile)
    entry,           \* how the file was used: "__main__" or the function
                     \* called after an import, "none" before
    timesteps,       \* scene.TimeKeeper.TimestepValues of the case
    screenshots,     \* the screenshots saved: [file, time], time being
                     \* scene.AnimationTime when the screenshot was taken
    frame_dir_files, \* the .png files that exist in the frame directory
    invoked,         \* the external commands create_gif_simple ran, in order
    outcome,         \* how each external command ended
    tool_console,    \* the result messages printed
    tool_returned,   \* what the call returned, "unset" when it did not
    palette,         \* TRUE iff palette.png exists
    simple_gif       \* the frames of simple_boiling.gif, <<>> while none

parserVars  == <<grid, file, variant, result, printed, raised>>
scannerVars == <<listing, scanner, time_dirs, scan_raised>>
asmVars == <<asm, apc, selected, idx, frame_files, tmp_files, written,
             attempted, logged, gif, uncaught, caller, console, returned,
             outputs>>
rendererVars == <<shape, alpha_3d, renderer, z_slice_idx, buckets>>
toolVars == <<tpc, entry, timesteps, screenshots, frame_dir_files, invoked,
              outcome, tool_console, tool_returned, palette, simple_gif>>
vars == <<parserVars, scannerVars, asmVars, rendererVars, toolVars>>

----------------------------------------------------------------------------
(* Bounds of the model *)

\* expected cell count (nx * ny * nz, expected_cells) of the modelled grid
Cells == 2
\* largest number of lines inside the data block of a generated field file
MaxData == 3
\* largest number of entries of the case directory
MaxEntries == 3
\* largest skip_frames argument of an assembler call
MaxSkip == 2

----------------------------------------------------------------------------
(* Lines of a field file and the string tests the parsers apply to them *)

MarkerLine  == "internalField   nonuniform List<scalar> "
UniformLine == "internalField   uniform 0;"
PaddedLine  == "  0.25 "

\* str.strip(): only PaddedLine and MarkerLine of the alphabet carry blanks
\* at their ends
Strip(line) ==
    CASE line = PaddedLine -> "0.25"
      [] line = MarkerLine -> "internalField   nonuniform List<scalar>"
      [] OTHER -> line

\* 'internalField' in line
HasInternalField(line) ==
    line \in {MarkerLine, Strip(MarkerLine), UniformLine}

\* a test that takes every line for one that holds 'nonuniform'
HasNonuniform_Any(line) == TRUE

\* 'nonuniform' in line
HasNonuniform(line) == line \in {MarkerLine, Strip(MarkerLine)}

DigitStrings == {ToString(n) : n \in 0..9}

\* str.isdigit(): non-empty and every character a digit
IsDigit(line) == line \in DigitStrings

\* line.startswith('(')
StartsWithParen(line) == line \in {"(", "(0 0 0)"}

\* int(text) succeeds
IntParses(text) == text \in DigitStrings \/ text = "-1"

IntOf(text) ==
    IF text = "-1" THEN 0 - 1
    ELSE CHOOSE n \in 0..9 : ToString(n) = text

FloatTexts == {"0.5", "1e-3", "0.25", "0.75", "0.9", "-1",
               "0.05", "0.1", "0.2", "1e-1", "0.50", "0.0"}

\* float(text) succeeds (no ValueError)
FloatParses(text) == text \in FloatTexts \/ text \in DigitStrings

\* float(text), in thousandths
FloatOf(text) ==
    CASE text = "0.5"  -> 500
      [] text = "1e-3" -> 1
      [] text = "0.25" -> 250
      [] text = "0.75" -> 750
      [] text = "0.9"  -> 900
      [] text = "-1"   -> 0 - 1000
      [] text = "0.05" -> 50
      [] text = "0.1"  -> 100
      [] text = "0.2"  -> 200
      [] text = "1e-1" -> 100
      [] text = "0.50" -> 500
      [] text = "0.0"  -> 0
      [] OTHER         -> 1000 * IntOf(text)

\* [x] * n
Repeat(x, n) == [k \in 1..n |-> x]

\* np.zeros(n)
Zeros(n) == Repeat(0, n)

\* seq[:n]
Take(seq, n) == SubSeq(seq, 1, IF n < Len(seq) THEN n ELSE Len(seq))

cells(g) == g[1] * g[2] * g[3]

----------------------------------------------------------------------------
(* Field files given to the parsers *)

DataAlphabet == {"0.5", "1", "1e-3", PaddedLine, "abc"}

RECURSIVE SeqsUpTo(_, _)
SeqsUpTo(S, n) ==
    IF n = 0 THEN {<<>>}
    ELSE LET shorter == SeqsUpTo(S, n - 1)
         IN  shorter \cup {Append(q, x) : q \in {r \in shorter : Len(r) = n - 1}, x \in S}

\* A field file in the OpenFOAM layout: header, internalField declaration,
\* count, "(", one value per line, closing parenthesis, boundary section.
\* Every part may be damaged: the internal field may be uniform, the declared
\* count may be that of another grid, the parentheses may be missing, data
\* lines may be junk, and numeric lines may stand outside the block.
FieldFileLines(n) ==
    { header \o <<marker>> \o <<count>> \o open \o data \o close \o trailer :
        header  \in {<<>>, <<"FoamFile", "0.75">>},
        marker  \in {MarkerLine, UniformLine},
        count   \in {ToString(n), ToString(n + 1)},
        open    \in {<<"(">>, <<>>},
        data    \in SeqsUpTo(DataAlphabet, MaxData),
        close   \in {<<")">>, <<");">>, <<>>},
        trailer \in {<<>>, <<"boundaryField", "(0 0 0)", "0.9", ")">>} }

FieldPath == "./0.05/alpha.water"

FieldFiles(n) ==
    {[path |-> FieldPath, status |-> "ok", lines |-> ls] : ls \in FieldFileLines(n)}
    \cup {[path |-> FieldPath, status |-> st, lines |-> <<>>] :
             st \in {"missing", "unreadable"}}

\* open(filepath, 'r') and f.readlines() / f.read(): an OSError for a file
\* that is missing or cannot be read
OpenRaises(f) == f.status # "ok"

\* The outcome of a try block: the value it computed, the messages it
\* printed, and whether it ended by raising.
Returned(value, msgs) == [exc |-> FALSE, value |-> value, printed |-> msgs]
Raising(msgs) == [exc |-> TRUE, value |-> <<>>, printed |-> msgs]

ErrorReading(path) == [text |-> "Error reading", path |-> path]
SizeWarning(path) == [text |-> "Warning: Expected", path |-> path]

----------------------------------------------------------------------------
(* Boiling3DVisualizer._read_openfoam_field                                *)

\* the loop over the lines: marker, then collect up to the closing line
RECURSIVE Collect3D(_, _, _, _)
Collect3D(lines, i, in_data, data_values) ==
    IF i > Len(lines) THEN data_values
    ELSE LET line == Strip(lines[i]) IN
         IF HasInternalField(line) /\ HasNonuniform(line)
         THEN Collect3D(lines, i + 1, TRUE, data_values)
         ELSE IF in_data
         THEN IF line = ")" \/ line = ");"
              THEN data_values
              ELSE IF line # "" /\ ~StartsWithParen(line)
              THEN IF ~IsDigit(line)
                   THEN IF FloatParses(line)
                        THEN Collect3D(lines, i + 1, in_data,
                                       Append(data_values, FloatOf(line)))
                        ELSE Collect3D(lines, i + 1, in_data, data_values)
                   ELSE Collect3D(lines, i + 1, in_data, data_values)
              ELSE Collect3D(lines, i + 1, in_data, data_values)
         ELSE Collect3D(lines, i + 1, in_data, data_values)

\* "Ensure correct size": pad with 0.0 or truncate
EnsureSize3D(data_values, total_cells) ==
    IF Len(data_values) # total_cells
    THEN IF Len(data_values) < total_cells
         THEN data_values \o Repeat(0, total_cells - Len(data_values))
         ELSE Take(data_values, total_cells)
    ELSE data_values

\* the try block
TryRead3D(f, total_cells) ==
    IF OpenRaises(f) THEN Raising(<<>>)
    ELSE Returned(EnsureSize3D(Collect3D(f.lines, 1, FALSE, <<>>), total_cells), <<>>)

\* the whole method; the reshape to (nz, ny, nx) keeps the flat order
Read3D(f, g) ==
    LET t == TryRead3D(f, cells(g)) IN
    IF t.exc
    THEN [value |-> Zeros(g[3] * g[2] * g[1]),
          printed |-> t.printed \o <<ErrorReading(f.path)>>, raised |-> FALSE]
    ELSE [value |-> t.value, printed |-> t.printed, raised |-> FALSE]

----------------------------------------------------------------------------
(* read_openfoam_scalar_field (simple_boiling_gif.py)                      *)

RECURSIVE CollectScalar(_, _, _, _)
CollectScalar(lines, i, in_data_section, data_values) ==
    IF i > Len(lines) THEN data_values
    ELSE LET line == Strip(lines[i]) IN
         IF HasInternalField(line) /\ HasNonuniform(line)
         THEN CollectScalar(lines, i + 1, TRUE, data_values)
         ELSE IF in_data_section
         THEN IF line = ")" \/ line = ");"
              THEN data_values
              ELSE IF line # "" /\ ~StartsWithParen(line) /\ IsDigit(line) = FALSE
              THEN IF FloatParses(line)
                   THEN CollectScalar(lines, i + 1, in_data_section,
                                      Append(data_values, FloatOf(line)))
                   ELSE CollectScalar(lines, i + 1, in_data_section, data_values)
              ELSE CollectScalar(lines, i + 1, in_data_section, data_values)
         ELSE CollectScalar(lines, i + 1, in_data_section, data_values)

\* EnsureSizeScalar without its padding and truncating branches
EnsureSizeScalar_AsRead(data_values, expected_cells, path) ==
    Returned(data_values, <<>>)

\* "Ensure we have the right number of values", with its warning
EnsureSizeScalar(data_values, expected_cells, path) ==
    IF Len(data_values) # expected_cells
    THEN IF Len(data_values) < expected_cells
         THEN Returned(data_values \o Repeat(0, expected_cells - Len(data_values)),
                       <<SizeWarning(path)>>)
         ELSE Returned(Take(data_values, expected_cells), <<SizeWarning(path)>>)
    ELSE Returned(data_values, <<>>)

TryReadScalar(f, expected_cells) ==
    IF OpenRaises(f) THEN Raising(<<>>)
    ELSE EnsureSizeScalar(CollectScalar(f.lines, 1, FALSE, <<>>), expected_cells, f.path)

ReadScalar(f, expected_cells) ==
    LET t == TryReadScalar(f, expected_cells) IN
    IF t.exc
    THEN [value |-> Zeros(expected_cells),
          printed |-> t.printed \o <<ErrorReading(f.path)>>, raised |-> FALSE]
    ELSE [value |-> t.value, printed |-> t.printed, raised |-> FALSE]

----------------------------------------------------------------------------
(* read_field_robust (ultimate_3d_boiling_viz.py)                          *)

RECURSIVE CollectRobust(_, _, _, _)
CollectRobust(lines, i, in_data, values) ==
    IF i > Len(lines) THEN values
    ELSE LET line == Strip(lines[i]) IN
         IF HasInternalField(line) /\ HasNonuniform(line)
         THEN CollectRobust(lines, i + 1, TRUE, values)
         ELSE IF in_data /\ (line = ")" \/ line = ");")
         THEN values
         ELSE IF in_data /\ line # ""
         THEN IF ~StartsWithParen(line) /\ ~IsDigit(line)
              THEN IF FloatParses(line)
                   THEN CollectRobust(lines, i + 1, in_data, Append(values, FloatOf(line)))
                   ELSE CollectRobust(lines, i + 1, in_data, values)
              ELSE CollectRobust(lines, i + 1, in_data, values)
         ELSE CollectRobust(lines, i + 1, in_data, values)

\* PadRobust without its truncating branch
PadRobust_NoTruncate(values, expected_cells) ==
    IF Len(values) < expected_cells
    THEN values \o Repeat(IF values # <<>> THEN values[Len(values)] ELSE 0,
                          expected_cells - Len(values))
    ELSE values

\* "Pad or truncate to expected size": the pad value is the last value read
PadRobust(values, expected_cells) ==
    IF Len(values) < expected_cells
    THEN values \o Repeat(IF values # <<>> THEN values[Len(values)] ELSE 0,
                          expected_cells - Len(values))
    ELSE IF Len(values) > expected_cells
    THEN Take(values, expected_cells)
    ELSE values

TryReadRobust(f, expected_cells) ==
    IF OpenRaises(f) THEN Raising(<<>>)
    ELSE Returned(PadRobust(CollectRobust(f.lines, 1, FALSE, <<>>), expected_cells), <<>>)

ReadRobust(f, expected_cells) ==
    LET t == TryReadRobust(f, expected_cells) IN
    IF t.exc
    THEN [value |-> Zeros(expected_cells),
          printed |-> t.printed \o <<ErrorReading(f.path)>>, raised |-> FALSE]
    ELSE [value |-> t.value, printed |-> t.printed, raised |-> FALSE]

----------------------------------------------------------------------------
(* BoilingAnimationGenerator._read_openfoam_field                          *)
(* Indices are Python's: line k of the file is lines[k + 1].               *)

Min(a, b) == IF a < b THEN a ELSE b

\* the inner loop "for j in range(i+1, min(i+5, len(lines)))": the index
\* after the opening parenthesis when a count equal to total_cells is
\* found, else -1
RECURSIVE FindCount(_, _, _, _)
FindCount(lines, j, stop, total_cells) ==
    IF j >= stop THEN 0 - 1
    ELSE LET text == Strip(lines[j + 1]) IN
         IF IntParses(text)
         THEN IF IntOf(text) = total_cells
              THEN j + 2
              ELSE FindCount(lines, j + 1, stop, total_cells)
         ELSE FindCount(lines, j + 1, stop, total_cells)

\* the outer loop "for i, line in enumerate(lines)": stops at the first
\* marker line
RECURSIVE FindDataStart(_, _, _)
FindDataStart(lines, i, total_cells) ==
    IF i >= Len(lines) THEN 0 - 1
    ELSE IF HasInternalField(lines[i + 1]) /\ HasNonuniform(lines[i + 1])
    THEN FindCount(lines, i + 1, Min(i + 5, Len(lines)), total_cells)
    ELSE FindDataStart(lines, i + 1, total_cells)

\* "Read the data values"
RECURSIVE CollectAnim(_, _, _)
CollectAnim(lines, i, data) ==
    IF i >= Len(lines) THEN data
    ELSE LET line == Strip(lines[i + 1]) IN
         IF line = ")" \/ line = ");"
         THEN data
         ELSE IF line # "" /\ ~StartsWithParen(line)
         THEN IF FloatParses(line)
              THEN CollectAnim(lines, i + 1, Append(data, FloatOf(line)))
              ELSE CollectAnim(lines, i + 1, data)
         ELSE CollectAnim(lines, i + 1, data)

\* "Pad or truncate as needed", with its warning
EnsureSizeAnim(data, total_cells, path) ==
    IF Len(data) # total_cells
    THEN IF Len(data) < total_cells
         THEN Returned(data \o Repeat(0, total_cells - Len(data)), <<SizeWarning(path)>>)
         ELSE Returned(Take(data, total_cells), <<SizeWarning(path)>>)
    ELSE Returned(data, <<>>)

\* the try block: raises ValueError when no data start was found
TryReadAnim(f, total_cells) ==
    IF OpenRaises(f) THEN Raising(<<>>)
    ELSE LET data_start == FindDataStart(f.lines, 0, total_cells) IN
         IF data_start = 0 - 1 THEN Raising(<<>>)
         ELSE EnsureSizeAnim(CollectAnim(f.lines, data_start, <<>>), total_cells, f.path)

\* ReadAnim with an except clause that catches only the ValueError of a
\* missing data start, so that the OSError of open() leaves the method
ReadAnim_OnlyValueError(f, g) ==
    LET t == TryReadAnim(f, cells(g)) IN
    IF t.exc
    THEN IF OpenRaises(f)
         THEN [value |-> <<>>, printed |-> t.printed, raised |-> TRUE]
         ELSE [value |-> Zeros(g[3] * g[2] * g[1]),
               printed |-> t.printed \o <<ErrorReading(f.path)>>, raised |-> FALSE]
    ELSE [value |-> t.value, printed |-> t.printed, raised |-> FALSE]

ReadAnim(f, g) ==
    LET t == TryReadAnim(f, cells(g)) IN
    IF t.exc
    THEN [value |-> Zeros(g[3] * g[2] * g[1]),
          printed |-> t.printed \o <<ErrorReading(f.path)>>, raised |-> FALSE]
    ELSE [value |-> t.value, printed |-> t.printed, raised |-> FALSE]

----------------------------------------------------------------------------
(* The parser calls as actions *)

Variants == {"Boiling3DVisualizer._read_openfoam_field",
             "BoilingAnimationGenerator._read_openfoam_field",
             "read_openfoam_scalar_field",
             "read_field_robust"}

AssemblerIdle ==
    /\ asm = "none"
    /\ apc = "idle"
    /\ selected = <<>>
    /\ idx = 0
    /\ frame_files = <<>>
    /\ tmp_files = {}
    /\ written = {}
    /\ attempted = {}
    /\ logged = {}
    /\ gif = <<>>
    /\ uncaught = "none"
    /\ caller = "none"
    /\ console = <<>>
    /\ returned = "unset"
    /\ outputs = {}

NoBuckets == [vapor |-> {}, interface |-> {}, water |-> {}, raised |-> FALSE]

RendererIdle ==
    /\ shape = <<1, 1, 1>>
    /\ alpha_3d = [c \in {<<0, 0, 0>>} |-> 0]
    /\ renderer = "none"
    /\ z_slice_idx = -1
    /\ buckets = NoBuckets

NoOutcome == [convert |-> "not run", palettegen |-> "not run",
              paletteuse |-> "not run"]

ToolIdle ==
    /\ tpc = "idle"
    /\ entry = "none"
    /\ timesteps = <<>>
    /\ screenshots = <<>>
    /\ frame_dir_files = {}
    /\ invoked = <<>>
    /\ outcome = NoOutcome
    /\ tool_console = <<>>
    /\ tool_returned = "unset"
    /\ palette = FALSE
    /\ simple_gif = <<>>

ScannerIdle ==
    /\ listing = <<>>
    /\ scanner = "none"
    /\ time_dirs = <<>>
    /\ scan_raised = FALSE

InitParser ==
    /\ grid = <<Cells, 1, 1>>
    /\ file \in FieldFiles(Cells)
    /\ variant = "none"
    /\ result = <<>>
    /\ printed = <<>>
    /\ raised = FALSE
    /\ ScannerIdle
    /\ AssemblerIdle
    /\ RendererIdle
    /\ ToolIdle

Ran(name, r) ==
    /\ variant = "none"
    /\ variant' = name
    /\ result' = r.value
    /\ printed' = r.printed
    /\ raised' = r.raised
    /\ UNCHANGED <<grid, file, scannerVars, asmVars, rendererVars, toolVars>>

Call3D == Ran("Boiling3DVisualizer._read_openfoam_field", Read3D(file, grid))

CallAnim == Ran("BoilingAnimationGenerator._read_openfoam_field", ReadAnim(file, grid))

CallScalar == Ran("read_openfoam_scalar_field", ReadScalar(file, cells(grid)))

CallRobust == Ran("read_field_robust", ReadRobust(file, cells(grid)))

NextParser == Call3D \/ CallAnim \/ CallScalar \/ CallRobust

SpecParser == InitParser /\ [][NextParser]_vars

----------------------------------------------------------------------------
(* The data block of a field file, read off the file layout *)

IsMarker(line) == HasInternalField(line) /\ HasNonuniform(line)
IsClosing(line) == Strip(line) \in {")", ");"}

\* index of the first marker line, 0 when there is none
MarkerIndex(lines) ==
    IF \E i \in 1..Len(lines) : IsMarker(lines[i])
    THEN CHOOSE i \in 1..Len(lines) :
             IsMarker(lines[i]) /\ \A k \in 1..(i - 1) : ~IsMarker(lines[k])
    ELSE 0

\* index of the first closing line after line `from`, 0 when there is none
ClosingIndex(lines, from) ==
    IF \E i \in (from + 1)..Len(lines) : IsClosing(lines[i])
    THEN CHOOSE i \in (from + 1)..Len(lines) :
             IsClosing(lines[i]) /\ \A k \in (from + 1)..(i - 1) : ~IsClosing(lines[k])
    ELSE 0

\* the file holds "marker, count n, (, ..., )" and every line of the block
\* parses as a floating-point number
HasNumericBlock(f, n) ==
    LET mk == MarkerIndex(f.lines) IN
    /\ f.status = "ok"
    /\ mk > 0
    /\ Len(f.lines) >= mk + 3
    /\ f.lines[mk + 1] = ToString(n)
    /\ f.lines[mk + 2] = "("
    /\ ClosingIndex(f.lines, mk + 2) > 0
    /\ \A i \in (mk + 3)..(ClosingIndex(f.lines, mk + 2) - 1) :
           FloatParses(Strip(f.lines[i]))

\* the values of the block's lines, in file order
BlockValues(f) ==
    LET mk == MarkerIndex(f.lines)
        cl == ClosingIndex(f.lines, mk + 2)
    IN  [i \in 1..(cl - mk - 3) |-> FloatOf(Strip(f.lines[mk + 2 + i]))]

\* the fill value of a parser copy for the values `vals` read before it
FillValue(name, vals) ==
    IF name = "read_field_robust" /\ vals # <<>> THEN vals[Len(vals)] ELSE 0

Called == variant # "none"

\* C1: a file whose block declares N and holds exactly N numeric lines is
\* returned as those N values in file order, by every parser copy and
\* whatever the textual form of the values.
C1_ExactBlockReturned ==
    (Called /\ HasNumericBlock(file, cells(grid))
            /\ Len(BlockValues(file)) = cells(grid))
        => result = BlockValues(file)

\* C2: a file whose block holds m < N numeric lines is returned as its m
\* values in file order followed by N - m fill values.
C2_ShortBlockPadded ==
    (Called /\ HasNumericBlock(file, cells(grid))
            /\ Len(BlockValues(file)) < cells(grid))
        => result = BlockValues(file)
                    \o Repeat(FillValue(variant, BlockValues(file)),
                              cells(grid) - Len(BlockValues(file)))

\* C3: a file whose block holds m > N numeric lines is returned as its
\* first N values in file order.
C3_LongBlockTruncated ==
    (Called /\ HasNumericBlock(file, cells(grid))
            /\ Len(BlockValues(file)) > cells(grid))
        => result = Take(BlockValues(file), cells(grid))

\* C4: whatever the input, every parser copy returns exactly N values.
C4_LengthAlwaysN ==
    Called => Len(result) = cells(grid)

\* C4 witness: a file holding more values than the grid has cells was
\* parsed and N values came back.
C4_Witness ==
    /\ variant = "read_field_robust"
    /\ file.status = "ok"
    /\ Len(CollectRobust(file.lines, 1, FALSE, <<>>)) > cells(grid)
    /\ Len(result) = cells(grid)

\* C5: a missing or unreadable file yields an all-zero result of the
\* expected size and a message naming the file, and nothing is raised.
C5_MissingFileDegrades ==
    (Called /\ file.status # "ok")
        => /\ result = Zeros(cells(grid))
           /\ \E k \in DOMAIN printed : printed[k] = ErrorReading(file.path)
           /\ raised = FALSE

\* C5 witness: a parser copy ran on a missing file and returned zeros.
C5_Witness ==
    /\ variant = "BoilingAnimationGenerator._read_openfoam_field"
    /\ file.status = "missing"
    /\ result = Zeros(cells(grid))
    /\ raised = FALSE

----------------------------------------------------------------------------
(* The case directory and the timestep scanners *)

\* names of the entries of the case directory; 1e-1 and 0.1 are two names
\* of one time value, and 1e-1 sorts after 0.2 as text
EntryNames == {"0.2", "0.05", "0.1", "1e-1", "constant"}

\* position of a name in the order of Python's string comparison
NameRank(name) ==
    CASE name = "0.05" -> 1
      [] name = "0.1"  -> 2
      [] name = "0.2"  -> 3
      [] name = "1e-1" -> 4
      [] OTHER         -> 5

\* an entry is a plain file, or a directory holding alpha.water, T, or both
Entries ==
    {[name |-> n, isdir |-> FALSE, alpha |-> FALSE, T |-> FALSE] : n \in EntryNames}
    \cup {[name |-> n, isdir |-> TRUE, alpha |-> a, T |-> t] :
             n \in EntryNames, a \in BOOLEAN, t \in BOOLEAN}

\* os.listdir: at most n entries in an arbitrary order, no name twice
Listings(n) ==
    UNION {{l \in [1..k -> Entries] :
               \A i \in 1..k : \A j \in 1..k : i # j => l[i].name # l[j].name} :
           k \in 0..n}

\* sorted(time_dirs) and time_dirs.sort() on floats
SortFloats(seq) == SortSeq(seq, LAMBDA a, b : a < b)

\* time_dirs.sort() on (time_val, time_path) tuples: by value, then by path
SortPairs(seq) ==
    SortSeq(seq, LAMBDA a, b :
        a[1] < b[1] \/ (a[1] = b[1] /\ NameRank(a[2]) < NameRank(b[2])))

\* Loop3D with "except ValueError: break": the scan stops at the first name
\* that is no number
RECURSIVE Loop3D_Break(_, _, _)
Loop3D_Break(l, i, dirs) ==
    IF i > Len(l) THEN [time_dirs |-> dirs, raised |-> FALSE]
    ELSE IF ~FloatParses(l[i].name)
    THEN [time_dirs |-> dirs, raised |-> FALSE]
    ELSE IF l[i].isdir /\ l[i].alpha /\ l[i].T
    THEN Loop3D_Break(l, i + 1, Append(dirs, FloatOf(l[i].name)))
    ELSE Loop3D_Break(l, i + 1, dirs)

\* Boiling3DVisualizer._find_time_directories: the loop
RECURSIVE Loop3D(_, _, _)
Loop3D(l, i, dirs) ==
    IF i > Len(l) THEN [time_dirs |-> dirs, raised |-> FALSE]
    ELSE IF ~FloatParses(l[i].name)
    THEN Loop3D(l, i + 1, dirs)                               \* except ValueError: continue
    ELSE IF l[i].isdir /\ l[i].alpha /\ l[i].T
    THEN Loop3D(l, i + 1, Append(dirs, FloatOf(l[i].name)))
    ELSE Loop3D(l, i + 1, dirs)

FindTimeDirectories3D(l) ==
    LET r == Loop3D(l, 1, <<>>)
    IN  [time_dirs |-> SortFloats(r.time_dirs), raised |-> r.raised]

\* BoilingAnimationGenerator._find_time_directories: the loop
RECURSIVE LoopAnim(_, _, _)
LoopAnim(l, i, dirs) ==
    IF i > Len(l) THEN [time_dirs |-> dirs, raised |-> FALSE]
    ELSE IF ~FloatParses(l[i].name)
    THEN LoopAnim(l, i + 1, dirs)
    ELSE IF l[i].isdir
    THEN IF l[i].alpha /\ l[i].T
         THEN LoopAnim(l, i + 1, Append(dirs, FloatOf(l[i].name)))
         ELSE LoopAnim(l, i + 1, dirs)                        \* "Skipping ..."
    ELSE LoopAnim(l, i + 1, dirs)

\* FindTimeDirectoriesAnim returning the list in listing order, unsorted
FindTimeDirectoriesAnim_Unsorted(l) == LoopAnim(l, 1, <<>>)

FindTimeDirectoriesAnim(l) ==
    LET r == LoopAnim(l, 1, <<>>)
    IN  [time_dirs |-> SortFloats(r.time_dirs), raised |-> r.raised]

\* the scan of create_boiling_gif: (time_val, time_path) pairs; the path is
\* represented by the entry name it ends in
RECURSIVE LoopGif(_, _, _)
LoopGif(l, i, dirs) ==
    IF i > Len(l) THEN [time_dirs |-> dirs, raised |-> FALSE]
    ELSE IF ~FloatParses(l[i].name)
    THEN LoopGif(l, i + 1, dirs)
    ELSE IF l[i].isdir /\ l[i].alpha
    THEN LoopGif(l, i + 1, Append(dirs, <<FloatOf(l[i].name), l[i].name>>))
    ELSE LoopGif(l, i + 1, dirs)

ScanBoilingGif(l) ==
    LET r == LoopGif(l, 1, <<>>)
    IN  [time_dirs |-> SortPairs(r.time_dirs), raised |-> r.raised]

\* the scan of create_ultimate_3d_gif
RECURSIVE LoopUltimate(_, _, _)
LoopUltimate(l, i, dirs) ==
    IF i > Len(l) THEN [time_dirs |-> dirs, raised |-> FALSE]
    ELSE IF ~FloatParses(l[i].name)
    THEN LoopUltimate(l, i + 1, dirs)
    ELSE IF l[i].isdir /\ l[i].alpha
    THEN LoopUltimate(l, i + 1, Append(dirs, FloatOf(l[i].name)))
    ELSE LoopUltimate(l, i + 1, dirs)

ScanUltimate(l) ==
    LET r == LoopUltimate(l, 1, <<>>)
    IN  [time_dirs |-> SortFloats(r.time_dirs), raised |-> r.raised]

ParserIdle ==
    /\ grid = <<Cells, 1, 1>>
    /\ file = [path |-> FieldPath, status |-> "missing", lines |-> <<>>]
    /\ variant = "none"
    /\ result = <<>>
    /\ printed = <<>>
    /\ raised = FALSE

InitScanner ==
    /\ listing \in Listings(MaxEntries)
    /\ scanner = "none"
    /\ time_dirs = <<>>
    /\ scan_raised = FALSE
    /\ ParserIdle
    /\ AssemblerIdle
    /\ RendererIdle
    /\ ToolIdle

Scanned(name, r) ==
    /\ scanner = "none"
    /\ scanner' = name
    /\ time_dirs' = r.time_dirs
    /\ scan_raised' = r.raised
    /\ UNCHANGED <<listing, parserVars, asmVars, rendererVars, toolVars>>

Scan3D == Scanned("Boiling3DVisualizer._find_time_directories",
                  FindTimeDirectories3D(listing))

ScanAnim == Scanned("BoilingAnimationGenerator._find_time_directories",
                    FindTimeDirectoriesAnim(listing))

ScanGif == Scanned("create_boiling_gif", ScanBoilingGif(listing))

ScanUlt == Scanned("create_ultimate_3d_gif", ScanUltimate(listing))

NextScanner == Scan3D \/ ScanAnim \/ ScanGif \/ ScanUlt

SpecScanner == InitScanner /\ [][NextScanner]_vars

----------------------------------------------------------------------------
(* Claims about the scanners *)

HasScanned == scanner # "none"

\* the time values of a scanner result (create_boiling_gif returns pairs)
TimesOf(name, dirs) ==
    IF name = "create_boiling_gif" THEN [i \in DOMAIN dirs |-> dirs[i][1]] ELSE dirs

Times == TimesOf(scanner, time_dirs)

\* number of positions of seq holding v
Count(seq, v) == Cardinality({i \in DOMAIN seq : seq[i] = v})

NumericName(e) == FloatParses(e.name)

\* a directory named by a number that holds both required field files
Qualifying(e) == NumericName(e) /\ e.isdir /\ e.alpha /\ e.T

\* an entry the scan has to skip: no number for a name, or a plain file
Skippable(e) == ~NumericName(e) \/ ~e.isdir

QualifyingAt(v) ==
    {i \in DOMAIN listing : Qualifying(listing[i]) /\ FloatOf(listing[i].name) = v}

TimeValues == {FloatOf(n) : n \in {m \in EntryNames : FloatParses(m)}}

\* C6: no scanner copy returns a directory that lacks alpha.water or lacks
\* T: every returned time value is returned at most as often as there are
\* directories of that value holding both files.
C6_OnlyDirsWithBothFiles ==
    HasScanned => \A v \in TimeValues : Count(Times, v) <= Cardinality(QualifyingAt(v))

C8_BadEntriesSkipped ==
    HasScanned =>
        /\ scan_raised = FALSE
        /\ \A j \in DOMAIN listing :
               (Qualifying(listing[j]) /\ \E i \in 1..(j - 1) : Skippable(listing[i]))
                   => Count(Times, FloatOf(listing[j].name))
                          >= Cardinality(QualifyingAt(FloatOf(listing[j].name)))

\* C8 witness: a non-numeric name, then a numerically named plain file,
\* then a qualifying directory, which is returned.
C8_Witness ==
    /\ scanner = "Boiling3DVisualizer._find_time_directories"
    /\ Len(listing) = 3
    /\ ~NumericName(listing[1])
    /\ NumericName(listing[2]) /\ ~listing[2].isdir
    /\ Qualifying(listing[3])
    /\ time_dirs = <<FloatOf(listing[3].name)>>
    /\ scan_raised = FALSE

----------------------------------------------------------------------------
(* The animation assemblers *)

Assemblers == {"generate_gif_animation", "create_boiling_gif",
               "create_ultimate_3d_gif", "create_rotating_gif",
               "create_time_evolution_3d_gif"}

\* np.linspace(0, 360, 36): the number of viewing angles of a rotation
NumAngles == 36

Max(a, b) == IF a > b THEN a ELSE b

Range(seq) == {seq[i] : i \in DOMAIN seq}

\* seq[::k]
Stride(seq, k) == [i \in 1..((Len(seq) + k - 1) \div k) |-> seq[(i - 1) * k + 1]]

\* the working directory of an assembler run: directories named by numbers,
\* each holding alpha.water and possibly T, listed from the textually last
\* name to the first
RECURSIVE ListingOf(_, _)
ListingOf(kinds, rank) ==
    IF rank = 0 THEN <<>>
    ELSE LET name == CHOOSE n \in EntryNames : NameRank(n) = rank
             rest == ListingOf(kinds, rank - 1)
         IN  IF kinds[name] = "absent" THEN rest
             ELSE <<[name |-> name, isdir |-> TRUE, alpha |-> TRUE,
                     T |-> kinds[name] = "both"]>> \o rest

StepNames == {n \in EntryNames : FloatParses(n)}

AsmListings ==
    {ListingOf(kinds, Cardinality(StepNames)) :
        kinds \in [StepNames -> {"absent", "both", "alpha only"}]}

\* a frame file name that does not depend on the frame's index
FrameFile_Fixed(a, i) == <<"frame_", 0>>

\* the name of the temporary file of frame i: f'temp_frame_{i:04d}.png',
\* f'frame_{i:04d}.png', f'ultimate_frame_{i:03d}.png', f'3d_frame_{i:03d}.png',
\* f'3d_time_frame_{i:03d}.png'
FrameFile(a, i) ==
    CASE a = "generate_gif_animation"       -> <<"temp_frame_", i>>
      [] a = "create_boiling_gif"           -> <<"frame_", i>>
      [] a = "create_ultimate_3d_gif"       -> <<"ultimate_frame_", i>>
      [] a = "create_rotating_gif"          -> <<"3d_frame_", i>>
      [] a = "create_time_evolution_3d_gif" -> <<"3d_time_frame_", i>>

\* os.path.exists(alpha_file) in create_boiling_frame, for the directory
\* of a (time_val, time_path) pair
AlphaExists(l, pair) ==
    \E k \in DOMAIN l : l[k].name = pair[2] /\ l[k].isdir /\ l[k].alpha

\* What an error raised while frame i is rendered or saved does to the run.
\* generate_gif_animation, create_boiling_gif, create_ultimate_3d_gif:
\* "except Exception as e: print(...); continue"
FrameErrorGenerateGif(i) == [apc |-> "loop", logged |-> {i}, uncaught |-> "none"]
FrameErrorBoilingGif(i)  == [apc |-> "loop", logged |-> {i}, uncaught |-> "none"]
FrameErrorUltimate(i)    == [apc |-> "loop", logged |-> {i}, uncaught |-> "none"]
\* create_rotating_gif, create_time_evolution_3d_gif: the loop body stands
\* in no try statement, the exception leaves the method
FrameErrorRotating(i)      == [apc |-> "aborted", logged |-> {}, uncaught |-> "frame"]
FrameErrorTimeEvolution(i) == [apc |-> "aborted", logged |-> {}, uncaught |-> "frame"]

OnFrameError(a, i) ==
    CASE a = "generate_gif_animation"       -> FrameErrorGenerateGif(i)
      [] a = "create_boiling_gif"           -> FrameErrorBoilingGif(i)
      [] a = "create_ultimate_3d_gif"       -> FrameErrorUltimate(i)
      [] a = "create_rotating_gif"          -> FrameErrorRotating(i)
      [] a = "create_time_evolution_3d_gif" -> FrameErrorTimeEvolution(i)

\* "images": the frame files of the list that exist, in list order
ExistingFrames(frames, files) == SelectSeq(frames, LAMBDA name : name \in files)

\* CleanUp looping over frame_files[1:], as the append_images argument does
CleanUp_SkipFirst(files, frames) == files \ Range(Tail(frames))

\* "Clean up": os.remove of every file of the list that exists
CleanUp(files, frames) == files \ Range(frames)

\* the working directory after the GIF step: the clean-up stands inside
\* "if images:"
AfterGif(files, frames) ==
    IF ExistingFrames(frames, files) # <<>> THEN CleanUp(files, frames) ELSE files

InitAssembler ==
    /\ listing \in AsmListings
    /\ scanner = "none"
    /\ time_dirs = <<>>
    /\ scan_raised = FALSE
    /\ ParserIdle
    /\ AssemblerIdle
    /\ RendererIdle
    /\ ToolIdle

\* the default of the output_file parameter, or the name main() passes
OutputFile(a, c) ==
    CASE a = "generate_gif_animation" ->
             IF c = "main" THEN "thermal_boiling_evolution.gif"
             ELSE "boiling_animation.gif"
      [] a = "create_boiling_gif"     -> "boiling_interface.gif"
      [] a = "create_ultimate_3d_gif" -> "ultimate_3d_boiling.gif"
      [] a = "create_rotating_gif"    -> "3d_boiling_rotation.gif"
      [] a = "create_time_evolution_3d_gif" ->
             IF c = "main" THEN "3d_boiling_time_evolution.gif"
             ELSE "3d_boiling_evolution.gif"

\* f'3d_boiling_t{time_val:.3f}s.png' of create_static_3d_plot
StaticPlotFile == "3d_boiling_t.png"

\* console messages: an error line, or the line that names a saved file
Error(text) == [kind |-> "error", text |-> text]
Saved(name) == [kind |-> "saved", text |-> name]

\* the run enters its frame loop over `sel`, called by `c`, after `msgs`
\* were printed and the output files `outs` were written
EnterLoop(a, c, sel, msgs, outs) ==
    /\ asm' = a
    /\ apc' = "loop"
    /\ selected' = sel
    /\ caller' = c
    /\ console' = console \o msgs
    /\ outputs' = outputs \cup outs
    /\ UNCHANGED <<idx, frame_files, tmp_files, written, attempted, logged, gif,
                   uncaught, returned>>

\* the run ends before any frame: by a return of None after `msgs` were
\* printed, or by an exception
EndEarly(a, c, exception, msgs) ==
    /\ asm' = a
    /\ apc' = IF exception = "none" THEN "done" ELSE "aborted"
    /\ uncaught' = exception
    /\ caller' = c
    /\ console' = console \o msgs
    /\ returned' = IF exception = "none" THEN "None" ELSE "unset"
    /\ UNCHANGED <<selected, idx, frame_files, tmp_files, written, attempted,
                   logged, gif, outputs>>

ScanBy(name, r) ==
    /\ apc = "idle"
    /\ scanner' = name
    /\ time_dirs' = r.time_dirs
    /\ scan_raised' = r.raised
    /\ UNCHANGED <<listing, parserVars, rendererVars, toolVars>>

\* BoilingAnimationGenerator(): __init__ scans; generate_gif_animation
\* selects time_dirs[::skip_frames] and prints selected_times[0], an
\* IndexError when no timestep was found
StartGenerateGif(skip_frames) ==
    LET r == FindTimeDirectoriesAnim(listing)
        selected_times == Stride(r.time_dirs, skip_frames)
    IN  /\ ScanBy("BoilingAnimationGenerator._find_time_directories", r)
        /\ IF selected_times = <<>>
           THEN EndEarly("generate_gif_animation", "direct", "IndexError", <<>>)
           ELSE EnterLoop("generate_gif_animation", "direct", selected_times,
                          <<>>, {})

\* main() of create_boiling_animation.py: constructs the generator, returns
\* with an error line when fewer than 2 timesteps were found, and calls
\* generate_gif_animation(..., skip_frames=2) otherwise
MainAnimation ==
    LET r == FindTimeDirectoriesAnim(listing)
    IN  /\ ScanBy("BoilingAnimationGenerator._find_time_directories", r)
        /\ IF Len(r.time_dirs) < 2
           THEN EndEarly("none", "main", "none",
                         <<Error("Need at least 2 time steps for animation!")>>)
           ELSE EnterLoop("generate_gif_animation", "main",
                          Stride(r.time_dirs, 2), <<>>, {})

\* create_boiling_gif: "skip = max(1, len(time_dirs) // 30)" and
\* "selected_dirs = time_dirs[::skip]"
SelectedDirsBoilingGif(dirs) == Stride(dirs, Max(1, Len(dirs) \div 30))

\* create_ultimate_3d_gif: "skip = max(1, len(time_dirs) // 25)" and
\* "selected_times = time_dirs[::skip]"
SelectedTimesUltimate(dirs) == Stride(dirs, Max(1, Len(dirs) \div 25))

\* create_boiling_gif without its test for fewer than 2 timesteps
StartBoilingGif_NoTest ==
    LET r == ScanBoilingGif(listing)
    IN  /\ ScanBy("create_boiling_gif", r)
        /\ EnterLoop("create_boiling_gif", "direct",
                     SelectedDirsBoilingGif(r.time_dirs), <<>>, {})

\* create_boiling_gif: scans, returns when fewer than 2 timesteps were
\* found, selects time_dirs[::max(1, len(time_dirs) // 30)]
StartBoilingGif ==
    LET r == ScanBoilingGif(listing)
    IN  /\ ScanBy("create_boiling_gif", r)
        /\ IF Len(r.time_dirs) < 2
           THEN EndEarly("create_boiling_gif", "direct", "none",
                         <<Error("Need at least 2 time steps!")>>)
           ELSE EnterLoop("create_boiling_gif", "direct",
                          SelectedDirsBoilingGif(r.time_dirs), <<>>, {})

\* create_ultimate_3d_gif: scans, selects
\* time_dirs[::max(1, len(time_dirs) // 25)]
StartUltimate ==
    LET r == ScanUltimate(listing)
    IN  /\ ScanBy("create_ultimate_3d_gif", r)
        /\ EnterLoop("create_ultimate_3d_gif", "direct",
                     SelectedTimesUltimate(r.time_dirs), <<>>, {})

\* the viewing angles of create_rotating_gif, by their index
Angles == [k \in 1..NumAngles |-> k - 1]

\* Boiling3DVisualizer(): __init__ scans; create_rotating_gif() takes the
\* middle timestep, an IndexError when no timestep was found, and renders
\* one frame per viewing angle
StartRotating ==
    LET r == FindTimeDirectories3D(listing)
    IN  /\ ScanBy("Boiling3DVisualizer._find_time_directories", r)
        /\ IF r.time_dirs = <<>>
           THEN EndEarly("create_rotating_gif", "direct", "IndexError", <<>>)
           ELSE EnterLoop("create_rotating_gif", "direct", Angles, <<>>, {})

\* Boiling3DVisualizer(): __init__ scans; create_time_evolution_3d_gif
\* selects time_dirs[::skip_frames]
StartTimeEvolution(skip_frames) ==
    LET r == FindTimeDirectories3D(listing)
    IN  /\ ScanBy("Boiling3DVisualizer._find_time_directories", r)
        /\ EnterLoop("create_time_evolution_3d_gif", "direct",
                     Stride(r.time_dirs, skip_frames), <<>>, {})

\* main() of create_3d_boiling_visualization.py: constructs the visualizer,
\* returns with an error line when no timestep was found; otherwise
\* create_static_3d_plot saves its picture and create_rotating_gif starts
Main3D ==
    LET r == FindTimeDirectories3D(listing)
    IN  /\ ScanBy("Boiling3DVisualizer._find_time_directories", r)
        /\ IF Len(r.time_dirs) = 0
           THEN EndEarly("none", "main", "none",
                         <<Error("No valid time directories found!")>>)
           ELSE EnterLoop("create_rotating_gif", "main", Angles,
                          <<Saved(StaticPlotFile)>>, {StaticPlotFile})

\* main() of create_3d_boiling_visualization.py when create_static_3d_plot
\* raises: it stands in no try statement
Main3DPlotRaises ==
    LET r == FindTimeDirectories3D(listing)
    IN  /\ ScanBy("Boiling3DVisualizer._find_time_directories", r)
        /\ Len(r.time_dirs) # 0
        /\ EndEarly("create_static_3d_plot", "main", "frame", <<>>)

\* main() of create_3d_boiling_visualization.py after create_rotating_gif
\* returned: create_time_evolution_3d_gif(..., skip_frames=3) starts with
\* an empty frame list
Main3DTimeEvolution ==
    /\ caller = "main"
    /\ asm = "create_rotating_gif"
    /\ apc = "done"
    /\ asm' = "create_time_evolution_3d_gif"
    /\ apc' = "loop"
    /\ selected' = Stride(time_dirs, 3)
    /\ idx' = 0
    /\ frame_files' = <<>>
    /\ written' = {}
    /\ attempted' = {}
    /\ logged' = {}
    /\ gif' = <<>>
    /\ returned' = "unset"
    /\ UNCHANGED <<tmp_files, uncaught, caller, console, outputs>>
    /\ UNCHANGED <<parserVars, scannerVars, rendererVars, toolVars>>

\* One pass of the frame loop in which nothing raises: the frame is
\* rendered, saved to its temporary file and appended to the list. In
\* create_boiling_gif a frame that is None (no alpha.water) is passed over.
RenderFrame ==
    /\ apc = "loop"
    /\ idx < Len(selected)
    /\ attempted' = attempted \cup {idx}
    /\ idx' = idx + 1
    /\ IF asm = "create_boiling_gif" /\ ~AlphaExists(listing, selected[idx + 1])
       THEN UNCHANGED <<frame_files, tmp_files, written>>
       ELSE /\ frame_files' = Append(frame_files, FrameFile(asm, idx))
            /\ tmp_files' = tmp_files \cup {FrameFile(asm, idx)}
            /\ written' = written \cup {FrameFile(asm, idx)}
    /\ UNCHANGED <<asm, apc, selected, logged, gif, uncaught, caller, console,
                   returned, outputs>>
    /\ UNCHANGED <<parserVars, scannerVars, rendererVars, toolVars>>

\* One pass of the frame loop in which rendering or savefig raises: no
\* file is written and nothing is appended to the list.
FrameRaises ==
    /\ apc = "loop"
    /\ idx < Len(selected)
    /\ attempted' = attempted \cup {idx}
    /\ idx' = idx + 1
    /\ apc' = OnFrameError(asm, idx).apc
    /\ logged' = logged \cup OnFrameError(asm, idx).logged
    /\ uncaught' = OnFrameError(asm, idx).uncaught
    /\ UNCHANGED <<asm, selected, frame_files, tmp_files, written, gif, caller,
                   console, returned, outputs>>
    /\ UNCHANGED <<parserVars, scannerVars, rendererVars, toolVars>>

\* images[0].save(output_file, save_all=True, append_images=images[1:]),
\* without append_images
SaveGif_FirstOnly(images) == <<Head(images)>>

\* images[0].save(output_file, save_all=True, append_images=images[1:]):
\* the frames of the GIF that is written
SaveGif(images) == <<Head(images)>> \o Tail(images)

\* What the statements after the frame loop print and return, given the
\* frame list, the images opened from it and the output file name.
\* generate_gif_animation: "if frames: ... if images: ... else: ... else: ..."
GifStepGenerateGif(frames, images, out) ==
    [console  |-> IF frames = <<>> THEN <<Error("No frames to animate!")>>
                  ELSE IF images = <<>> THEN <<Error("No valid frames created!")>>
                  ELSE <<Saved(out)>>,
     returned |-> "None"]
\* create_boiling_gif
GifStepBoilingGif(frames, images, out) ==
    [console  |-> IF frames = <<>> THEN <<Error("No frames created!")>>
                  ELSE IF images = <<>> THEN <<Error("No valid images created!")>>
                  ELSE <<Saved(out)>>,
     returned |-> "None"]
\* create_ultimate_3d_gif with "if frame_files:" lacking its else branch
GifStepUltimate_Silent(frames, images, out) ==
    [console  |-> IF images = <<>> THEN <<>> ELSE <<Saved(out)>>,
     returned |-> "None"]
\* create_ultimate_3d_gif
GifStepUltimate(frames, images, out) ==
    [console  |-> IF frames = <<>> THEN <<Error("No frames created!")>>
                  ELSE IF images = <<>> THEN <<Error("No valid images created!")>>
                  ELSE <<Saved(out)>>,
     returned |-> "None"]
\* create_rotating_gif: "if images: ..." with no else, "return output_file"
GifStepRotating(frames, images, out) ==
    [console  |-> IF images = <<>> THEN <<>> ELSE <<Saved(out)>>,
     returned |-> out]
\* create_time_evolution_3d_gif: "if images: ..." with no else,
\* "return output_file"
GifStepTimeEvolution(frames, images, out) ==
    [console  |-> IF images = <<>> THEN <<>> ELSE <<Saved(out)>>,
     returned |-> out]

GifStep(a, frames, images, out) ==
    CASE a = "generate_gif_animation"       -> GifStepGenerateGif(frames, images, out)
      [] a = "create_boiling_gif"           -> GifStepBoilingGif(frames, images, out)
      [] a = "create_ultimate_3d_gif"       -> GifStepUltimate(frames, images, out)
      [] a = "create_rotating_gif"          -> GifStepRotating(frames, images, out)
      [] a = "create_time_evolution_3d_gif" -> GifStepTimeEvolution(frames, images, out)

\* After the loop: open the frame files that exist, save them as one GIF,
\* remove the frame files, return.
AssembleGif ==
    LET images == ExistingFrames(frame_files, tmp_files)
        out == OutputFile(asm, caller)
        step == GifStep(asm, frame_files, images, out)
    IN  /\ apc = "loop"
        /\ idx = Len(selected)
        /\ gif' = IF images # <<>> THEN SaveGif(images) ELSE gif
        /\ outputs' = IF images # <<>> THEN outputs \cup {out} ELSE outputs
        /\ tmp_files' = AfterGif(tmp_files, frame_files)
        /\ console' = console \o step.console
        /\ returned' = step.returned
        /\ apc' = "done"
        /\ UNCHANGED <<asm, selected, idx, frame_files, written, attempted,
                       logged, uncaught, caller>>
        /\ UNCHANGED <<parserVars, scannerVars, rendererVars, toolVars>>

NextAssembler ==
    \/ \E skip_frames \in 1..MaxSkip : StartGenerateGif(skip_frames)
    \/ MainAnimation
    \/ StartBoilingGif
    \/ StartUltimate
    \/ StartRotating
    \/ \E skip_frames \in 1..MaxSkip : StartTimeEvolution(skip_frames)
    \/ Main3D
    \/ Main3DPlotRaises
    \/ Main3DTimeEvolution
    \/ RenderFrame
    \/ FrameRaises
    \/ AssembleGif

SpecAssembler == InitAssembler /\ [][NextAssembler]_vars

----------------------------------------------------------------------------
(* Claims about the assemblers *)

OverTimesteps == Assemblers \ {"create_rotating_gif"}

\* C10: in every assembler over timesteps, a frame whose rendering or
\* saving raises is caught and logged and the loop goes on: no run is ended
\* by a frame's error, every failed frame is logged, and a completed run
\* attempted every selected timestep.
C10_FrameErrorCaught ==
    asm \in OverTimesteps =>
        /\ uncaught # "frame"
        /\ \A i \in attempted :
               FrameFile(asm, i) \in written \/ i \in logged
               \/ (asm = "create_boiling_gif" /\ ~AlphaExists(listing, selected[i + 1]))
        /\ apc = "done" /\ uncaught = "none" /\ selected # <<>>
               => attempted = {k - 1 : k \in DOMAIN selected}

\* the frame files of a GIF stand in ascending order of their index
FramesInOrder(g) == \A p, q \in DOMAIN g : p < q => g[p][2] < g[q][2]

HasError(msgs) == \E k \in DOMAIN msgs : msgs[k].kind = "error"
HasSaved(msgs, name) == \E k \in DOMAIN msgs : msgs[k] = Saved(name)

\* C12: an assembler that completes with zero rendered frames writes no
\* output file and reports the failure on the console or to its caller; it
\* neither reports nor returns an output file that it did not write.
C12_NoFramesNoOutput ==
    (apc = "done" /\ asm \in Assemblers /\ written = {}) =>
        /\ OutputFile(asm, caller) \notin outputs
        /\ HasError(console)
        /\ ~HasSaved(console, OutputFile(asm, caller))
        /\ returned # OutputFile(asm, caller)

\* the run is one of the scripts that scan and render in one process
InProcessScript ==
    \/ caller = "main"
    \/ asm \in {"create_boiling_gif", "create_ultimate_3d_gif"}

\* C13: when the scanner found no timestep, each in-process script prints
\* an error message and ends: it renders no frame, writes no temporary
\* and no output file, and no exception leaves it.
C13_NoTimestepsEndsWithError ==
    (apc # "idle" /\ InProcessScript /\ time_dirs = <<>>) =>
        /\ attempted = {}
        /\ written = {} /\ tmp_files = {} /\ outputs = {} /\ gif = <<>>
        /\ uncaught = "none" /\ apc # "aborted"
        /\ apc = "loop" => idx = Len(selected)
        /\ apc = "done" => HasError(console)

\* C13 witness: main() of the 3D visualizer has ended with its error line
\* over a case directory whose entries all lack the T file.
C13_Witness ==
    /\ apc = "done"
    /\ caller = "main"
    /\ scanner = "Boiling3DVisualizer._find_time_directories"
    /\ listing # <<>>
    /\ time_dirs = <<>>
    /\ console = <<Error("No valid time directories found!")>>

\* the simulation time of an element of the selected sequence:
\* create_boiling_gif selects (time_val, time_path) pairs
TimeOfSelected(a, t) == IF a = "create_boiling_gif" THEN t[1] ELSE t

\* sub is a subsequence of seq that starts with the first element of seq
SubsequenceFromFirst(sub, seq) ==
    \E f \in [DOMAIN sub -> DOMAIN seq] :
        /\ \A p, q \in DOMAIN sub : p < q => f[p] < f[q]
        /\ \A p \in DOMAIN sub : sub[p] = seq[f[p]]
        /\ sub # <<>> => f[1] = 1

\* C17: every assembler over timesteps renders its frames in strictly
\* ascending order of simulation time: the selected timesteps are a
\* subsequence of the scanner's sorted result starting with its first
\* timestep, they are visited in index order, and the frames stand in the
\* GIF in that order, also when frames in between failed.
C17_AscendingTimeOrder ==
    (asm \in OverTimesteps /\ apc \in {"loop", "done"}) =>
        /\ \A p, q \in DOMAIN selected :
               p < q => TimeOfSelected(asm, selected[p]) < TimeOfSelected(asm, selected[q])
        /\ SubsequenceFromFirst(selected, time_dirs)
        /\ attempted = {k - 1 : k \in 1..idx}
        /\ FramesInOrder(frame_files)
        /\ FramesInOrder(gif)

\* C20: within one assembler run every temporary frame file has a name
\* of its own, derived from the frame's index in the selected sequence: no
\* frame overwrites another frame of the run, also when frames in between
\* were skipped.
C20_FrameNamesDistinct ==
    asm \in Assemblers =>
        /\ \A p, q \in DOMAIN frame_files :
               p # q => frame_files[p] # frame_files[q]
        /\ \A p \in DOMAIN frame_files :
               \E i \in attempted : frame_files[p] = FrameFile(asm, i)
        /\ Cardinality(written) = Len(frame_files)

\* C20 witness: create_ultimate_3d_gif is in its loop, frame 0 failed and
\* was skipped, and the frames 1 and 2 were saved under two names.
C20_Witness ==
    /\ apc = "loop"
    /\ asm = "create_ultimate_3d_gif"
    /\ logged = {0}
    /\ frame_files = <<FrameFile(asm, 1), FrameFile(asm, 2)>>
    /\ Cardinality(tmp_files) = 2

----------------------------------------------------------------------------
(* The frame renderers: the layer a 2D renderer draws and the phase       *)
(* buckets a 3D renderer hands to scatter. The temperature field colours  *)
(* the points and selects none of them; it is left out.                   *)

\* nz of the grids given to the 2D renderers
Layers == 3
\* nx and nz of the cubic grids given to the 3D renderers
Side == 3

Indices(n) == 0..(n - 1)

\* the cells <<k, j, i>> of an array of shape <<nz, ny, nx>>
CellsOf(sh) == Indices(sh[1]) \X Indices(sh[2]) \X Indices(sh[3])

\* np.sum((slice_2d > 0.1) & (slice_2d < 0.9)) for slice_2d = alpha_3d[k, :, :]
InterfaceCells(a3, sh, k) ==
    Cardinality({c \in CellsOf(sh) : c[1] = k /\ a3[c] > 100 /\ a3[c] < 900})

\* max(list)
PyMax(seq) == CHOOSE m \in Range(seq) : \A v \in Range(seq) : v <= m

\* an argmax that returns the last index of the maximum
ArgMax_Last(seq) ==
    (CHOOSE n \in DOMAIN seq :
        seq[n] = PyMax(seq) /\ \A m \in DOMAIN seq : m > n => seq[m] # PyMax(seq)) - 1

\* np.argmax(list): the first index of the maximum
ArgMax(seq) ==
    (CHOOSE n \in DOMAIN seq :
        seq[n] = PyMax(seq) /\ \A m \in 1..(n - 1) : seq[m] # PyMax(seq)) - 1

\* _create_interface_slice with z_slice_idx=None: the selected layer
CreateInterfaceSlice(a3, sh) ==
    LET nz == sh[1]
        interface_activity == [n \in 1..nz |-> InterfaceCells(a3, sh, n - 1)]
    IN  IF PyMax(interface_activity) > 0
        THEN ArgMax(interface_activity)
        ELSE nz \div 3

\* the loop with ">=" for ">": the highest layer wins a tie
RECURSIVE BestSliceLoop_LastOnTie(_, _, _, _, _)
BestSliceLoop_LastOnTie(a3, sh, k, best_slice, max_interface) ==
    IF k = sh[1] THEN best_slice
    ELSE LET interface_cells == InterfaceCells(a3, sh, k)
         IN  IF interface_cells >= max_interface
             THEN BestSliceLoop_LastOnTie(a3, sh, k + 1, k, interface_cells)
             ELSE BestSliceLoop_LastOnTie(a3, sh, k + 1, best_slice, max_interface)

\* "for k in range(nz)" of create_boiling_frame, from layer k on
RECURSIVE BestSliceLoop(_, _, _, _, _)
BestSliceLoop(a3, sh, k, best_slice, max_interface) ==
    IF k = sh[1] THEN best_slice
    ELSE LET interface_cells == InterfaceCells(a3, sh, k)
         IN  IF interface_cells > max_interface
             THEN BestSliceLoop(a3, sh, k + 1, k, interface_cells)
             ELSE BestSliceLoop(a3, sh, k + 1, best_slice, max_interface)

\* create_boiling_frame: best_slice after the loop
CreateBoilingFrameSlice(a3, sh) == BestSliceLoop(a3, sh, 0, sh[1] \div 4, 0)

\* "step = 2": the subsampling stride of both 3D renderers
step == 2

\* range(n)[::step]
Sampled(n) == {m \in Indices(n) : m % step = 0}

\* the cells that alpha_3d[::step, ::step, ::step] keeps
SampledCells(sh) ==
    {c \in CellsOf(sh) : c[1] \in Sampled(sh[1]) /\ c[2] \in Sampled(sh[2])
                         /\ c[3] \in Sampled(sh[3])}

\* alpha_sub.shape
SubShape(sh) == <<Cardinality(Sampled(sh[1])), Cardinality(Sampled(sh[2])),
                  Cardinality(Sampled(sh[3]))>>

\* X_sub.shape for np.meshgrid(x_sub, y_sub, z_sub, indexing='ij')
MeshShape(sh) == <<Cardinality(Sampled(sh[3])), Cardinality(Sampled(sh[2])),
                   Cardinality(Sampled(sh[1]))>>

\* X_sub[mask], Y_sub[mask], Z_sub[mask] for the mask element of cell
\* <<k, j, i>>: the element stands at [k/step, j/step, i/step] of the mask,
\* where X_sub holds x_sub[k/step] = x[k], Y_sub holds y[j] and Z_sub holds
\* z[i]. x, y, z are indices into the coordinate arrays.
PointOf(cell) == [cell |-> cell, x |-> cell[1], y |-> cell[2], z |-> cell[3]]

\* the three scatter calls of a 3D renderer for the masks vm, im, wm: a
\* non-empty mask indexes the meshes, an IndexError when the shapes differ
Scatter(sh, vm, im, wm) ==
    IF (vm \cup im \cup wm) # {} /\ SubShape(sh) # MeshShape(sh)
    THEN [vapor |-> {}, interface |-> {}, water |-> {}, raised |-> TRUE]
    ELSE [vapor     |-> {PointOf(c) : c \in vm},
          interface |-> {PointOf(c) : c \in im},
          water     |-> {PointOf(c) : c \in wm},
          raised    |-> FALSE]

Abs(n) == IF n < 0 THEN -n ELSE n

\* the pairs <<a, b>> of thousandths for which the double a - b lies below
\* the double nearest to the decimal difference: 0.7 - 0.5 is
\* 0.19999999999999996
RoundsBelow == {<<700, 500>>}

\* np.abs(alpha - level) in double arithmetic
FloatAbsDiff(a, level) ==
    [mil |-> Abs(a - level), below |-> <<a, level>> \in RoundsBelow]

\* d < c for a double d and the double nearest to the decimal c
FloatLess(d, c) == d.mil < c \/ (d.mil = c /\ d.below)

\* create_3d_frame
InterfaceMask3D(a) == FloatLess(FloatAbsDiff(a, 500), 200)
WaterMask3D(a) == a > 700
VaporMask3D(a) == a < 300

Create3DFrame(a3, sh) ==
    Scatter(sh, {c \in SampledCells(sh) : VaporMask3D(a3[c])},
                {c \in SampledCells(sh) : InterfaceMask3D(a3[c])},
                {c \in SampledCells(sh) : WaterMask3D(a3[c])})

\* a water mask with the comparison turned round
WaterMaskUltimate_Flipped(a) == a < 800

\* create_ultimate_3d_viz
WaterMaskUltimate(a) == a > 800
InterfaceMaskUltimate(a) == a > 200 /\ a < 800
VaporMaskUltimate(a) == a < 200

CreateUltimate3DViz(a3, sh) ==
    Scatter(sh, {c \in SampledCells(sh) : VaporMaskUltimate(a3[c])},
                {c \in SampledCells(sh) : InterfaceMaskUltimate(a3[c])},
                {c \in SampledCells(sh) : WaterMaskUltimate(a3[c])})

\* volume fractions of the 2D inputs: on a threshold and between them
SliceAlphabet == {100, 500, 900}

\* volume fractions of the 3D inputs: the ends, the thresholds, the middle
BucketAlphabet == {0, 200, 300, 500, 700, 800, 1000}

SliceFields(sh) == [CellsOf(sh) -> SliceAlphabet]

\* the fields that vary over the subsampled cells and are 0.0 or 1.0 on
\* all the others
BucketFields(sh) ==
    {[c \in CellsOf(sh) |-> IF c \in SampledCells(sh) THEN f[c] ELSE fill] :
        f \in [SampledCells(sh) -> BucketAlphabet], fill \in {0, 1000}}

\* the field that is 1.0 where the index along `axis` (1: z layer k, 2: y
\* index j, 3: x index i) is below h and 0.0 elsewhere
PlaneField(sh, axis, h) == [c \in CellsOf(sh) |-> IF c[axis] < h THEN 1000 ELSE 0]

PlaneFields(sh) == {PlaneField(sh, axis, h) : axis \in 1..3, h \in 0..Side}

InitRenderer ==
    /\ \/ /\ shape = <<Layers, 1, 2>>
          /\ alpha_3d \in SliceFields(shape)
       \/ /\ shape = <<Side, 1, Side>>
          /\ alpha_3d \in BucketFields(shape) \cup PlaneFields(shape)
    /\ renderer = "none"
    /\ z_slice_idx = -1
    /\ buckets = NoBuckets
    /\ ParserIdle
    /\ ScannerIdle
    /\ AssemblerIdle
    /\ ToolIdle

Rendered(name) ==
    /\ renderer = "none"
    /\ renderer' = name
    /\ UNCHANGED <<shape, alpha_3d, parserVars, scannerVars, asmVars, toolVars>>

CallInterfaceSlice ==
    /\ Rendered("_create_interface_slice")
    /\ z_slice_idx' = CreateInterfaceSlice(alpha_3d, shape)
    /\ UNCHANGED buckets

CallBoilingFrame ==
    /\ Rendered("create_boiling_frame")
    /\ z_slice_idx' = CreateBoilingFrameSlice(alpha_3d, shape)
    /\ UNCHANGED buckets

Call3DFrame ==
    /\ Rendered("create_3d_frame")
    /\ buckets' = Create3DFrame(alpha_3d, shape)
    /\ UNCHANGED z_slice_idx

CallUltimate3DViz ==
    /\ Rendered("create_ultimate_3d_viz")
    /\ buckets' = CreateUltimate3DViz(alpha_3d, shape)
    /\ UNCHANGED z_slice_idx

NextRenderer ==
    \/ CallInterfaceSlice
    \/ CallBoilingFrame
    \/ Call3DFrame
    \/ CallUltimate3DViz

SpecRenderer == InitRenderer /\ [][NextRenderer]_vars

----------------------------------------------------------------------------
(* Claims about the frame renderers *)

\* the fixed default layer of a 2D renderer
DefaultLayer(name, nz) ==
    IF name = "_create_interface_slice" THEN nz \div 3 ELSE nz \div 4

\* C14: each 2D renderer selects the layer whose count of cells with
\* 0.1 < alpha < 0.9 is greatest, the lowest such layer on a tie, and its
\* fixed default layer (nz // 3, nz // 4) when no cell of any layer lies
\* strictly between 0.1 and 0.9.
C14_LayerWithMostInterface ==
    renderer \in {"_create_interface_slice", "create_boiling_frame"} =>
        IF \E k \in Indices(shape[1]) : InterfaceCells(alpha_3d, shape, k) > 0
        THEN /\ z_slice_idx \in Indices(shape[1])
             /\ \A k \in Indices(shape[1]) :
                    /\ InterfaceCells(alpha_3d, shape, k)
                           <= InterfaceCells(alpha_3d, shape, z_slice_idx)
                    /\ k < z_slice_idx =>
                           InterfaceCells(alpha_3d, shape, k)
                               < InterfaceCells(alpha_3d, shape, z_slice_idx)
        ELSE z_slice_idx = DefaultLayer(renderer, shape[1])

\* C14 witness: _create_interface_slice was given a grid whose layers 1
\* and 2 tie with one interface cell each while layer 0 has none, and it
\* selected layer 1.
C14_Witness ==
    /\ renderer = "_create_interface_slice"
    /\ InterfaceCells(alpha_3d, shape, 0) = 0
    /\ InterfaceCells(alpha_3d, shape, 1) = 1
    /\ InterfaceCells(alpha_3d, shape, 2) = 1
    /\ z_slice_idx = 1

InBucket(b, c) == \E p \in b : p.cell = c

\* C15: in both 3D renderers the buckets vapor, interface and water
\* partition the subsampled points: each subsampled point belongs to
\* exactly one bucket, for every volume fraction in [0, 1].
C15_BucketsPartition ==
    (renderer \in {"create_3d_frame", "create_ultimate_3d_viz"} /\ ~buckets.raised) =>
        \A c \in SampledCells(shape) :
            Cardinality({b \in {"vapor", "interface", "water"} :
                            InBucket(buckets[b], c)}) = 1

\* the coordinates of the subsampled points below the plane: the point of
\* cell <<k, j, i>> lies at (x[i], y[j], z[k])
BelowPlane(sh, axis, h) ==
    {<<c[3], c[2], c[1]>> : c \in {s \in SampledCells(sh) : s[axis] < h}}

Coordinates(b) == {<<p.x, p.y, p.z>> : p \in b}

\* C16: for a field that is exactly 1.0 at all cells below a plane and
\* exactly 0.0 at all cells above it, create_ultimate_3d_viz puts no point
\* in the interface bucket and puts in the water bucket exactly the
\* subsampled points that lie below the plane.
C16_PlaneFieldBuckets ==
    (renderer = "create_ultimate_3d_viz" /\ ~buckets.raised) =>
        \A axis \in 1..3 : \A h \in 0..shape[axis] :
            alpha_3d = PlaneField(shape, axis, h) =>
                /\ buckets.interface = {}
                /\ Coordinates(buckets.water) = BelowPlane(shape, axis, h)

----------------------------------------------------------------------------
(* The external-tool driver simple_animation.py: create_simple_animation    *)
(* saves one screenshot per frame through the visualization application,    *)
(* create_gif_simple hands the screenshots to convert or ffmpeg.            *)
(*                                                                          *)
(* create_simple_animation holds "from paraview.simple import *" (line 14). *)
(* Python 3 allows a star import at module level only and refuses to        *)
(* compile the file, and Python 2 refuses its f-strings: every use of the   *)
(* file, as a script or as a module, ends with a SyntaxError before any of  *)
(* its statements runs.                                                     *)

\* largest number of timesteps the loaded case reports
MaxTimesteps == 2

\* "len(timesteps) if timesteps else 50": the frames of a case without
\* timesteps
DefaultFrames == 50

\* strictly ascending sequences of time values (in thousandths)
TimestepLists(n) ==
    UNION {{ts \in [1..k -> {100 * v : v \in 1..(n + 1)}] :
               \A p, q \in 1..k : p < q => ts[p] < ts[q]} : k \in 0..n}

\* f'{output_dir}/frame_{i:04d}.png'
ScreenshotFile(i) == <<"simple_frames/frame_", i>>

\* the file as the compiler sees it: the star import of line 14 stands
\* inside "def create_simple_animation():"
SimpleAnimationSource == [star_import_in_function |-> TRUE]

\* compiling a source file under Python 3
Compile(source) ==
    IF source.star_import_in_function THEN "SyntaxError" ELSE "compiled"

\* what a use of the file leaves when the file does not compile
SyntaxErrorResult(files, pal, old_gif) ==
    [tpc |-> "SyntaxError", screenshots |-> <<>>, files |-> files,
     invoked |-> <<>>, outcome |-> NoOutcome,
     console |-> <<"SyntaxError: import * only allowed at module level">>,
     returned |-> "unset", palette |-> pal, gif |-> old_gif]

\* num_frames
NumFrames(ts) == IF ts # <<>> THEN Len(ts) ELSE DefaultFrames

\* "timesteps[i] if timesteps else i * 0.1"
FrameTime(ts, i) == IF ts # <<>> THEN ts[i + 1] ELSE i * 100

\* the statements of create_simple_animation: without the application's
\* modules "return False"; else one Render and SaveScreenshot per frame
\* after scene.AnimationTime was set, "return output_dir"
SimpleAnimation(paraview, ts, files, pal, old_gif) ==
    IF ~paraview
    THEN [tpc |-> "returned", screenshots |-> <<>>, files |-> files,
          invoked |-> <<>>, outcome |-> NoOutcome,
          console |-> <<"Error: ParaView Python modules not found.">>,
          returned |-> "False", palette |-> pal, gif |-> old_gif]
    ELSE LET shots == [p \in 1..NumFrames(ts) |->
                          [file |-> ScreenshotFile(p - 1),
                           time |-> FrameTime(ts, p - 1)]]
         IN  [tpc |-> "returned", screenshots |-> shots,
              files |-> files \cup {shots[p].file : p \in DOMAIN shots},
              invoked |-> <<>>, outcome |-> NoOutcome, console |-> <<>>,
              returned |-> "simple_frames", palette |-> pal, gif |-> old_gif]

\* sorted(glob.glob(os.path.join(frame_dir, '*.png'))) for the files
\* frame_0000.png, frame_0001.png, ...
RECURSIVE SortedFrames(_)
SortedFrames(files) ==
    IF files = {} THEN <<>>
    ELSE LET first == CHOOSE f \in files : \A g \in files : f[2] <= g[2]
         IN  <<first>> \o SortedFrames(files \ {first})

\* how a subprocess.run(..., check=True) can end: it returns, the program
\* is not installed (FileNotFoundError), it exits with an error
\* (CalledProcessError)
RunResults == {"ok", "missing", "failed"}

\* "except (subprocess.CalledProcessError, FileNotFoundError): pass"
Caught(how) == how \in {"missing", "failed"}

\* "Try ffmpeg": palettegen, paletteuse, os.remove('palette.png'). `wrote`
\* tells whether a palettegen that exits with an error left palette.png.
TryFfmpeg(gen, use, wrote, pal) ==
    IF Caught(gen)
    THEN [invoked |-> <<"ffmpeg palettegen">>,
          outcome |-> [palettegen |-> gen, paletteuse |-> "not run"],
          succeeded |-> FALSE,
          palette |-> pal \/ (gen = "failed" /\ wrote)]
    ELSE IF Caught(use)
    THEN [invoked |-> <<"ffmpeg palettegen", "ffmpeg paletteuse">>,
          outcome |-> [palettegen |-> gen, paletteuse |-> use],
          succeeded |-> FALSE,
          palette |-> TRUE]
    ELSE [invoked |-> <<"ffmpeg palettegen", "ffmpeg paletteuse">>,
          outcome |-> [palettegen |-> gen, paletteuse |-> use],
          succeeded |-> TRUE,
          palette |-> FALSE]

\* the statements of create_gif_simple(frame_dir) over the .png files of
\* the directory, for the results conv, gen, use of the three commands
GifSimple(files, conv, gen, use, wrote, pal, old_gif) ==
    LET frames == SortedFrames(files)
        ff == TryFfmpeg(gen, use, wrote, pal)
        same == [tpc |-> "returned", screenshots |-> <<>>, files |-> files]
    IN  IF frames = <<>>
        THEN same @@
             [invoked |-> <<>>, outcome |-> NoOutcome,
              console |-> <<"No frames found!">>, returned |-> "False",
              palette |-> pal, gif |-> old_gif]
        ELSE IF ~Caught(conv)
        THEN same @@
             [invoked |-> <<"convert">>,
              outcome |-> [convert |-> conv, palettegen |-> "not run",
                           paletteuse |-> "not run"],
              console |-> <<"GIF created with ImageMagick: simple_boiling.gif">>,
              returned |-> "True", palette |-> pal, gif |-> frames]
        ELSE same @@
             [invoked |-> <<"convert">> \o ff.invoked,
              outcome |-> [convert |-> conv,
                           palettegen |-> ff.outcome.palettegen,
                           paletteuse |-> ff.outcome.paletteuse],
              console |-> IF ff.succeeded
                          THEN <<"GIF created with ffmpeg: simple_boiling.gif">>
                          ELSE <<"Could not create GIF automatically.",
                                 "Install ImageMagick or ffmpeg, or use online tools.">>,
              returned |-> IF ff.succeeded THEN "True" ELSE "False",
              palette |-> ff.palette,
              gif |-> IF ff.succeeded THEN frames ELSE old_gif]

\* the statements of "if __name__ == '__main__':" with case.foam present:
\* create_simple_animation, then create_gif_simple on the directory it
\* returned
MainStatements(paraview, ts, files, conv, gen, use, wrote, pal, old_gif) ==
    LET a == SimpleAnimation(paraview, ts, files, pal, old_gif)
        g == GifSimple(a.files, conv, gen, use, wrote, pal, old_gif)
    IN  IF a.returned = "False" THEN a
        ELSE [g EXCEPT !.screenshots = a.screenshots]

\* the working directory holds the screenshots and the palette an earlier
\* run may have left
InitTools ==
    /\ tpc = "idle"
    /\ entry = "none"
    /\ timesteps \in TimestepLists(MaxTimesteps)
    /\ screenshots = <<>>
    /\ \E n \in 0..(MaxTimesteps + 1) :
           frame_dir_files = {ScreenshotFile(i) : i \in 0..(n - 1)}
    /\ invoked = <<>>
    /\ outcome = NoOutcome
    /\ tool_console = <<>>
    /\ tool_returned = "unset"
    /\ palette \in BOOLEAN
    /\ simple_gif = <<>>
    /\ ParserIdle
    /\ ScannerIdle
    /\ AssemblerIdle
    /\ RendererIdle

\* a use of the file through `e` ends with the effects r
Used(e, r) ==
    /\ tpc = "idle"
    /\ tpc' = r.tpc
    /\ entry' = e
    /\ screenshots' = r.screenshots
    /\ frame_dir_files' = r.files
    /\ invoked' = r.invoked
    /\ outcome' = r.outcome
    /\ tool_console' = r.console
    /\ tool_returned' = r.returned
    /\ palette' = r.palette
    /\ simple_gif' = r.gif
    /\ UNCHANGED <<timesteps, parserVars, scannerVars, asmVars, rendererVars>>

\* "import simple_animation; simple_animation.create_simple_animation()"
UseCreateSimpleAnimation(paraview) ==
    Used("create_simple_animation",
         IF Compile(SimpleAnimationSource) = "SyntaxError"
         THEN SyntaxErrorResult(frame_dir_files, palette, simple_gif)
         ELSE SimpleAnimation(paraview, timesteps, frame_dir_files, palette,
                              simple_gif))

\* "import simple_animation; simple_animation.create_gif_simple('simple_frames')"
UseCreateGifSimple(conv, gen, use, wrote) ==
    Used("create_gif_simple",
         IF Compile(SimpleAnimationSource) = "SyntaxError"
         THEN SyntaxErrorResult(frame_dir_files, palette, simple_gif)
         ELSE GifSimple(frame_dir_files, conv, gen, use, wrote, palette,
                        simple_gif))

\* "pvpython simple_animation.py" in a case directory that holds case.foam
RunScript(paraview, conv, gen, use, wrote) ==
    Used("__main__",
         IF Compile(SimpleAnimationSource) = "SyntaxError"
         THEN SyntaxErrorResult(frame_dir_files, palette, simple_gif)
         ELSE MainStatements(paraview, timesteps, frame_dir_files, conv, gen,
                             use, wrote, palette, simple_gif))

NextTools ==
    \/ \E paraview \in BOOLEAN : UseCreateSimpleAnimation(paraview)
    \/ \E conv \in RunResults, gen \in RunResults, use \in {"ok", "failed"},
          wrote \in BOOLEAN : UseCreateGifSimple(conv, gen, use, wrote)
    \/ \E paraview \in BOOLEAN, conv \in RunResults, gen \in RunResults,
          use \in {"ok", "failed"}, wrote \in BOOLEAN :
           RunScript(paraview, conv, gen, use, wrote)

SpecTools == InitTools /\ [][NextTools]_vars

----------------------------------------------------------------------------
(* Claims about the external-tool driver *)

Ffmpeg == {"ffmpeg palettegen", "ffmpeg paletteuse"}

ManualInstructions == "Could not create GIF automatically."

Printed(msgs, text) == \E k \in DOMAIN msgs : msgs[k] = text

ConvertSucceeded == outcome.convert = "ok"
FfmpegSucceeded == outcome.palettegen = "ok" /\ outcome.paletteuse = "ok"

\* C18: create_gif_simple follows a strict fallback chain. With no
\* screenshot it invokes no external tool and returns False; otherwise it
\* invokes convert first, ffmpeg only after convert was missing or exited
\* with an error, prints the manual instructions only after both failed,
\* and returns True exactly when one of the two tools completed.
C18_FallbackChain ==
    (entry = "create_gif_simple" /\ tpc # "idle") =>
        /\ frame_dir_files = {} => (invoked = <<>> /\ tool_returned = "False")
        /\ frame_dir_files # {} => (invoked # <<>> /\ invoked[1] = "convert")
        /\ \A k \in DOMAIN invoked :
               invoked[k] \in Ffmpeg =>
                   /\ outcome.convert \in {"missing", "failed"}
                   /\ \E c \in 1..(k - 1) : invoked[c] = "convert"
        /\ Printed(tool_console, ManualInstructions) =>
               /\ frame_dir_files # {}
               /\ ~ConvertSucceeded /\ ~FfmpegSucceeded
               /\ \E k \in DOMAIN invoked : invoked[k] \in Ffmpeg
        /\ tool_returned = "True" <=>
               (frame_dir_files # {} /\ (ConvertSucceeded \/ FfmpegSucceeded))
        /\ tool_returned \in {"True", "False"}

\* C19: for a case with a non-empty list of timesteps, opened with the
\* visualization application's modules at hand, create_simple_animation saves exactly one screenshot per timestep, the
\* screenshot of index i after the animation time was set to the i-th
\* timestep, in increasing i: the number of saved frames is the number of
\* timesteps.
C19_OneScreenshotPerTimestep ==
    (/\ entry = "create_simple_animation"
     /\ tpc # "idle"
     /\ timesteps # <<>>
     /\ ~Printed(tool_console, "Error: ParaView Python modules not found.")) =>
        /\ Len(screenshots) = Len(timesteps)
        /\ \A p \in DOMAIN screenshots :
               screenshots[p] = [file |-> ScreenshotFile(p - 1), time |-> timesteps[p]]
        /\ \A p \in DOMAIN timesteps : ScreenshotFile(p - 1) \in frame_dir_files

----------------------------------------------------------------------------
(* The directory a renderer reads for a timestep: create_3d_frame,          *)
(* create_animation_frame and create_ultimate_3d_viz get the time value the *)
(* scanner returned and build the directory name from it with str.          *)

\* largest number of entries of the case directory a frame is read from
MaxDirs == 2

\* the digits of the fraction f / 1000 without trailing zeros, at least one
FractionDigits(f) ==
    IF f % 100 = 0 THEN ToString(f \div 100)
    ELSE IF f % 10 = 0 THEN ToString(f \div 100) \o ToString((f \div 10) % 10)
    ELSE ToString(f \div 100) \o ToString((f \div 10) % 10) \o ToString(f % 10)

\* str(time_val) for a float of the model's range (1e-3 <= |v| < 1e16 or
\* v = 0): the shortest decimal text that reads back as the float, which
\* always carries a decimal point
PyStr(v) ==
    IF v < 0 THEN "-" \o ToString((0 - v) \div 1000) \o "." \o FractionDigits((0 - v) % 1000)
    ELSE ToString(v \div 1000) \o "." \o FractionDigits(v % 1000)

\* names of the entries of the case directory: OpenFOAM writes the initial
\* time as 0 and whole times as 1, 2, ...; 0.50 and 1e-1 are other texts a
\* directory of time 0.5 or 0.1 can carry
DirNames == {"0", "0.0", "1", "0.5", "0.50", "0.1", "1e-1", "constant"}

DirEntries ==
    {[name |-> n, isdir |-> FALSE, alpha |-> FALSE, T |-> FALSE] : n \in DirNames}
    \cup {[name |-> n, isdir |-> TRUE, alpha |-> TRUE, T |-> t] :
             n \in DirNames, t \in BOOLEAN}

\* os.listdir: at most n entries in an arbitrary order, no name twice
DirListings(n) ==
    UNION {{l \in [1..k -> DirEntries] :
               \A i \in 1..k : \A j \in 1..k : i # j => l[i].name # l[j].name} :
           k \in 0..n}

\* os.path.join(case_dir, time_dir, 'alpha.water') and what open() finds
\* there in the case directory l
AlphaFile(l, time_dir) ==
    [path |-> <<time_dir, "alpha.water">>,
     status |-> IF \E k \in DOMAIN l :
                       l[k].name = time_dir /\ l[k].isdir /\ l[k].alpha
                THEN "ok" ELSE "missing",
     lines |-> <<>>]

\* create_3d_frame, create_animation_frame, create_ultimate_3d_viz:
\* time_dir = str(time_val)
TimeDirOf(time_val) == PyStr(time_val)

InitFrameDir ==
    /\ listing \in DirListings(MaxDirs)
    /\ scanner = "none"
    /\ time_dirs = <<>>
    /\ scan_raised = FALSE
    /\ ParserIdle
    /\ AssemblerIdle
    /\ RendererIdle
    /\ ToolIdle

\* the frame loop calls the renderer `name` with time_dirs[idx], which
\* opens the alpha.water of the directory it names
ReadsFrame(name, scan) ==
    /\ scanner = scan
    /\ idx < Len(time_dirs)
    /\ renderer' = name
    /\ file' = AlphaFile(listing, TimeDirOf(time_dirs[idx + 1]))
    /\ idx' = idx + 1
    /\ UNCHANGED <<grid, variant, result, printed, raised>>
    /\ UNCHANGED <<asm, apc, selected, frame_files, tmp_files, written,
                   attempted, logged, gif, uncaught, caller, console, returned,
                   outputs>>
    /\ UNCHANGED <<shape, alpha_3d, z_slice_idx, buckets>>
    /\ UNCHANGED <<scannerVars, toolVars>>

Create3DFrameReads ==
    ReadsFrame("create_3d_frame", "Boiling3DVisualizer._find_time_directories")

CreateAnimationFrameReads ==
    ReadsFrame("create_animation_frame",
               "BoilingAnimationGenerator._find_time_directories")

CreateUltimate3DVizReads ==
    ReadsFrame("create_ultimate_3d_viz", "create_ultimate_3d_gif")

NextFrameDir ==
    \/ Scan3D
    \/ ScanAnim
    \/ ScanUlt
    \/ Create3DFrameReads
    \/ CreateAnimationFrameReads
    \/ CreateUltimate3DVizReads

SpecFrameDir == InitFrameDir /\ [][NextFrameDir]_vars

----------------------------------------------------------------------------
(* Claims about the directory a renderer reads *)

\* the directories the scanner `name` checked and found for the value v
FoundFor(name, v) ==
    {k \in DOMAIN listing :
        /\ FloatParses(listing[k].name)
        /\ FloatOf(listing[k].name) = v
        /\ listing[k].isdir
        /\ listing[k].alpha
        /\ (name = "create_ultimate_3d_gif" \/ listing[k].T)}

\* C21: for every timestep the scanner returns, the directory the renderer
\* then reads (named by str of the time value) is a directory the scanner
\* found and checked for that time value, whatever numeric text names it
\* (0, 1, 0.50, 1e-1 included).
C21_RendererReadsScannedDirectory ==
    (renderer # "none" /\ idx > 0) =>
        \E k \in FoundFor(scanner, time_dirs[idx]) :
            listing[k].name = file.path[1]

----------------------------------------------------------------------------
(* Claims about the axes of the 3D renderers *)

\* np.array(data_values).reshape((nz, ny, nx)): the flat position of the
\* value that becomes the cell <<k, j, i>>
FlatPosition(sh, cell) == cell[3] + sh[3] * cell[2] + sh[3] * sh[2] * cell[1]

\* the x index i, y index j and z layer k of the flat file position
\* n = i + nx*j + nx*ny*k
GridIndexOf(sh, n) ==
    [x |-> n % sh[3], y |-> (n \div sh[3]) % sh[2], z |-> n \div (sh[3] * sh[2])]

AllPoints(b) == b.vapor \cup b.interface \cup b.water

\* C22: in both 3D renderers the value read at flat position
\* n = i + nx*j + nx*ny*k is drawn, when it survives the subsampling, at
\* the coordinate (x[i], y[j], z[k]): no value is drawn with its x and z
\* indices exchanged.
C22_DrawnAtOwnCoordinate ==
    (renderer \in {"create_3d_frame", "create_ultimate_3d_viz"}) =>
        \A p \in AllPoints(buckets) :
            LET g == GridIndexOf(shape, FlatPosition(shape, p.cell))
            IN  p.x = g.x /\ p.y = g.y /\ p.z = g.z

----------------------------------------------------------------------------
(* The frame selection of create_boiling_gif and create_ultimate_3d_gif    *)
(* for long runs: the stride follows from the number of timesteps found.   *)

\* largest number of timesteps the scan of a long run returns
MaxSteps == 64

\* the sorted scan result of a run that wrote k timesteps 0.1, 0.2, ...
ScannedSteps(k) == [t \in 1..k |-> 100 * t]

InitSelection ==
    /\ \E k \in 1..MaxSteps : time_dirs = ScannedSteps(k)
    /\ listing = <<>>
    /\ scanner = "none"
    /\ scan_raised = FALSE
    /\ ParserIdle
    /\ AssemblerIdle
    /\ RendererIdle
    /\ ToolIdle

\* the assembler `a` selects `sel` from the sorted scan result
Selects(a, scan, sel) ==
    /\ asm = "none"
    /\ asm' = a
    /\ scanner' = scan
    /\ selected' = sel
    /\ UNCHANGED <<apc, idx, frame_files, tmp_files, written, attempted, logged,
                   gif, uncaught, caller, console, returned, outputs>>
    /\ UNCHANGED <<listing, time_dirs, scan_raised>>
    /\ UNCHANGED <<parserVars, rendererVars, toolVars>>

\* create_boiling_gif holds (time_val, time_path) pairs and returns before
\* the selection when it found fewer than 2
SelectBoilingGif ==
    Selects("create_boiling_gif", "create_boiling_gif",
            IF Len(time_dirs) < 2 THEN <<>>
            ELSE SelectedDirsBoilingGif([t \in DOMAIN time_dirs |->
                                            <<time_dirs[t], PyStr(time_dirs[t])>>]))

SelectUltimate ==
    Selects("create_ultimate_3d_gif", "create_ultimate_3d_gif",
            SelectedTimesUltimate(time_dirs))

NextSelection == SelectBoilingGif \/ SelectUltimate

SpecSelection == InitSelection /\ [][NextSelection]_vars

----------------------------------------------------------------------------
(* Claims about the frame selection *)

\* the cap the stride of an assembler aims at
FrameCap(a) ==
    CASE a = "create_boiling_gif"     -> 30
      [] a = "create_ultimate_3d_gif" -> 25

\* C23: the stride max(1, T // 30) of create_boiling_gif and max(1, T // 25)
\* of create_ultimate_3d_gif caps the number of frames: for every number
\* T >= 1 of timesteps found, at most 30, respectively 25, are selected.
C23_StrideCapsFrames ==
    (asm \in {"create_boiling_gif", "create_ultimate_3d_gif"}) =>
        Len(selected) <= FrameCap(asm)

----------------------------------------------------------------------------
(* Claims about the extent of the data block *)

\* the parser copy `name` applied to the file f for the grid g
ReadBy(name, f, g) ==
    CASE name = "Boiling3DVisualizer._read_openfoam_field"       -> Read3D(f, g)
      [] name = "BoilingAnimationGenerator._read_openfoam_field" -> ReadAnim(f, g)
      [] name = "read_openfoam_scalar_field" -> ReadScalar(f, cells(g))
      [] name = "read_field_robust"          -> ReadRobust(f, cells(g))

\* the lines from the first marker line to the first closing line after it
\* (to the end of the file when no closing line follows); no line when the
\* file has no marker line
BlockLines(lines) ==
    LET mk == MarkerIndex(lines)
        cl == ClosingIndex(lines, mk)
    IN  IF mk = 0 THEN <<>>
        ELSE SubSeq(lines, mk, IF cl = 0 THEN Len(lines) ELSE cl)

\* C24: every parser copy takes its values only from the lines between the
\* marker line and the first closing line after it: the lines before the
\* marker and the lines after that closing line contribute nothing, so the
\* result is the one the block alone gives.
C24_OnlyBlockLinesContribute ==
    (Called /\ file.status = "ok") =>
        result = ReadBy(variant, [file EXCEPT !.lines = BlockLines(file.lines)],
                        grid).value

\* the file holds no line that carries both internalField and nonuniform
NoMarkerLine(lines) ==
    \A i \in DOMAIN lines : lines[i] # MarkerLine /\ lines[i] # Strip(MarkerLine)

\* C25: for a readable file without a nonuniform internalField line (a
\* uniform internal field, say) every parser copy returns N zeros, even
\* when the file holds numeric lines elsewhere, and raises nothing.
C25_NoMarkerAllZero ==
    (Called /\ file.status = "ok" /\ NoMarkerLine(file.lines)) =>
        /\ result = Zeros(cells(grid))
        /\ raised = FALSE

\* C25 witness: a parser copy ran on a file with a uniform internal field
\* that holds numeric lines before, inside and after its parentheses, and
\* returned zeros.
C25_Witness ==
    /\ variant = "read_field_robust"
    /\ file.status = "ok"
    /\ NoMarkerLine(file.lines)
    /\ \E i \in DOMAIN file.lines : file.lines[i] = UniformLine
    /\ \E i \in DOMAIN file.lines : file.lines[i] = "0.75"
    /\ \E i \in DOMAIN file.lines : file.lines[i] = "0.5"
    /\ \E i \in DOMAIN file.lines : file.lines[i] = "0.9"
    /\ result = Zeros(cells(grid))
    /\ raised = FALSE

----------------------------------------------------------------------------
(* Claims about the agreement of the marker-then-scan parser copies *)

MarkerThenScan == {"Boiling3DVisualizer._read_openfoam_field",
                   "read_openfoam_scalar_field",
                   "read_field_robust"}

\* the number of values the file yields to a marker-then-scan copy
Yielded(f) == IF f.status = "ok" THEN Len(Collect3D(f.lines, 1, FALSE, <<>>)) ELSE 0

\* C26: the three marker-then-scan copies agree. For every file and the
\* same cell count N, Boiling3DVisualizer._read_openfoam_field (flattened)
\* and read_openfoam_scalar_field return the same sequence; read_field_robust
\* returns that sequence too when the file yields at least N values or
\* none, and otherwise differs from it only in the fill value of the
\* positions after the values read.
C26_MarkerThenScanAgree ==
    (Called /\ variant \in MarkerThenScan) =>
        LET by3D == Read3D(file, grid).value
            byScalar == ReadScalar(file, cells(grid)).value
            n == Yielded(file)
        IN  /\ by3D = byScalar
            /\ variant # "read_field_robust" => result = by3D
            /\ (variant = "read_field_robust" /\ (n = 0 \/ n >= cells(grid)))
                   => result = by3D
            /\ (variant = "read_field_robust" /\ n > 0 /\ n < cells(grid))
                   => /\ Len(result) = Len(by3D)
                      /\ \A k \in 1..n : result[k] = by3D[k]
                      /\ \A k \in (n + 1)..cells(grid) :
                             result[k] = result[n] /\ by3D[k] = 0

\* C26 witness: read_openfoam_scalar_field ran on a file that yields one
\* value for a grid of more cells, and returned what
\* Boiling3DVisualizer._read_openfoam_field returns: the value, then 0.0.
C26_Witness ==
    /\ variant = "read_openfoam_scalar_field"
    /\ Yielded(file) = 1
    /\ cells(grid) > 1
    /\ result[1] # 0
    /\ result = Read3D(file, grid).value
    /\ result # ReadRobust(file, cells(grid)).value

----------------------------------------------------------------------------
(* Claims about the agreement of the 2D slice selectors *)

InterfaceExists(a3, sh) == \E c \in CellsOf(sh) : a3[c] > 100 /\ a3[c] < 900

\* C27: the two 2D slice selectors agree whenever an interface exists: on
\* a grid with at least one cell of 0.1 < alpha < 0.9 the layer selected by
\* the argmax of _create_interface_slice and the layer selected by the
\* running maximum of create_boiling_frame are the same.
C27_SliceSelectorsAgree ==
    (renderer \in {"_create_interface_slice", "create_boiling_frame"}
     /\ InterfaceExists(alpha_3d, shape)) =>
        /\ z_slice_idx = CreateInterfaceSlice(alpha_3d, shape)
        /\ z_slice_idx = CreateBoilingFrameSlice(alpha_3d, shape)

\* C27 witness: create_boiling_frame was given a grid whose layers 1 and 2
\* tie with two interface cells each while layer 0 has one, and selected
\* layer 1, the layer the argmax selects, which is neither default layer.
C27_Witness ==
    /\ renderer = "create_boiling_frame"
    /\ InterfaceCells(alpha_3d, shape, 0) = 1
    /\ InterfaceCells(alpha_3d, shape, 1) = 2
    /\ InterfaceCells(alpha_3d, shape, 2) = 2
    /\ z_slice_idx = 1
    /\ CreateInterfaceSlice(alpha_3d, shape) = 1

----------------------------------------------------------------------------
(* Claims about runs with a single timestep *)

\* a run of create_boiling_gif, or of main() of create_boiling_animation.py
RefusingRun ==
    \/ asm = "create_boiling_gif"
    \/ (caller = "main"
        /\ scanner = "BoilingAnimationGenerator._find_time_directories")

\* C28: create_boiling_gif and the main of create_boiling_animation refuse
\* to animate fewer than two timesteps: when the scan finds exactly one
\* qualifying timestep they print an error and return before any frame is
\* rendered, so that no temporary file and no output GIF is written.
C28_SingleTimestepRefused ==
    (apc # "idle" /\ RefusingRun /\ Len(time_dirs) = 1) =>
        /\ apc = "done"
        /\ HasError(console)
        /\ attempted = {}
        /\ written = {}
        /\ tmp_files = {}
        /\ gif = <<>>
        /\ outputs = {}

\* C28 witness: main() of create_boiling_animation.py ran in a case
\* directory with one qualifying timestep directory and returned after
\* its error line.
C28_Witness ==
    /\ caller = "main"
    /\ scanner = "BoilingAnimationGenerator._find_time_directories"
    /\ Cardinality({k \in DOMAIN listing : Qualifying(listing[k])}) = 1
    /\ Len(time_dirs) = 1
    /\ apc = "done"
    /\ HasError(console)
    /\ gif = <<>>

----------------------------------------------------------------------------
(* The statements of simple_animation.py executed as they are written,     *)
(* that is, as they run once the star import of line 14 is accepted (moved *)
(* to module level): runs that follow one another in one working           *)
(* directory. Nothing in the file empties the frame directory.             *)

\* the timesteps of the cases the runs are made on: each case reports its
\* timesteps
CaseTimesteps == TimestepLists(MaxTimesteps) \ {<<>>}

\* a fresh working directory
InitWritten ==
    /\ tpc = "idle"
    /\ entry = "none"
    /\ timesteps = <<>>
    /\ screenshots = <<>>
    /\ frame_dir_files = {}
    /\ invoked = <<>>
    /\ outcome = NoOutcome
    /\ tool_console = <<>>
    /\ tool_returned = "unset"
    /\ palette = FALSE
    /\ simple_gif = <<>>
    /\ ParserIdle
    /\ ScannerIdle
    /\ AssemblerIdle
    /\ RendererIdle

\* a use of the file through `e`, on a case whose timesteps are ts, ends
\* with the effects r
Ends(e, ts, r) ==
    /\ tpc' = r.tpc
    /\ entry' = e
    /\ timesteps' = ts
    /\ screenshots' = r.screenshots
    /\ frame_dir_files' = r.files
    /\ invoked' = r.invoked
    /\ outcome' = r.outcome
    /\ tool_console' = r.console
    /\ tool_returned' = r.returned
    /\ palette' = r.palette
    /\ simple_gif' = r.gif
    /\ UNCHANGED <<parserVars, scannerVars, asmVars, rendererVars>>

\* create_simple_animation() on a case with the timesteps ts
WrittenCreateSimpleAnimation(paraview, ts) ==
    Ends("create_simple_animation", ts,
         SimpleAnimation(paraview, ts, frame_dir_files, palette, simple_gif))

\* create_gif_simple('simple_frames')
WrittenCreateGifSimple(conv, gen, use, wrote) ==
    Ends("create_gif_simple", timesteps,
         GifSimple(frame_dir_files, conv, gen, use, wrote, palette, simple_gif))

\* the script run in the directory of a case with the timesteps ts
WrittenMain(paraview, ts, conv, gen, use, wrote) ==
    Ends("__main__", ts,
         MainStatements(paraview, ts, frame_dir_files, conv, gen, use, wrote,
                        palette, simple_gif))

NextWritten ==
    \/ \E paraview \in BOOLEAN, ts \in CaseTimesteps :
           WrittenCreateSimpleAnimation(paraview, ts)
    \/ \E conv \in RunResults, gen \in RunResults, use \in {"ok", "failed"},
          wrote \in BOOLEAN : WrittenCreateGifSimple(conv, gen, use, wrote)
    \/ \E paraview \in BOOLEAN, ts \in CaseTimesteps,
          conv \in RunResults, gen \in RunResults, use \in {"ok", "failed"},
          wrote \in BOOLEAN :
           WrittenMain(paraview, ts, conv, gen, use, wrote)

SpecWritten == InitWritten /\ [][NextWritten]_vars

----------------------------------------------------------------------------
(* Claims about the files of the external-tool path *)

\* the files of the screenshots a run captured, in the order it saved them
Captured == [p \in DOMAIN screenshots |-> screenshots[p].file]

====
